---- MODULE Spec2Model ----
(***************************************************************************)
(* Position-lifecycle and risk-control engine of the trading bot           *)
(* (bot/src/services/trading/engine.ts, class TradingEngine), together     *)
(* with the parts of the exchange gateway and of the trade memory that the *)
(* engine's open, close and reconciliation paths touch.                    *)
(*                                                                         *)
(* The engine is a single Node.js process: a handler runs without          *)
(* interruption until it reaches an `await`, where any other handler may   *)
(* run.  Every action below is one such uninterrupted segment.  The        *)
(* invocations that are suspended at an await are the bag `tasks`.         *)
(*                                                                         *)
(* Numbers.  JavaScript numbers are modelled by exact integers in fixed    *)
(* units: prices in 1/PriceDen USD, quantities in 1/QtyDen of a contract,  *)
(* USD P&L in 1/(PriceDen*QtyDen*FeeDen) USD, balances in whole USD.  NaN  *)
(* is the integer NaN, outside every modelled magnitude.                   *)
(*                                                                         *)
(* Next is the whole engine.  The sub-systems at the end (SpecOpen,        *)
(* SpecExposure, SpecClose, SpecOpenClose, SpecOpenRecon) each run the     *)
(* handlers of one part of it, over the same state and the same actions.   *)
(***************************************************************************)
EXTENDS Integers, Sequences, FiniteSets, Bags, TLC

\* ------------------------------------------------------------------ units
\* 0.995 = 199/200 and 1.005 = 201/200 (trailing stop), 0.01 USD = 2/200.
PriceDen == 200
\* Three decimals: the finest QUANTITY_PRECISION and the default step 0.001.
QtyDen == 1000
\* 0.0002 = 1/5000, the fee rate per side.
FeeDen == 5000
NaN == 0 - 1000000000

IsNaN(x) == x = NaN

\* ------------------------------------------------------- program constants
MIN_CONFIDENCE == 45
MAX_LEVERAGE == 10
MAX_POSITION_SIZE_PERCENT == 5
MAX_HOLD_TIME_HOURS == 2
MAX_TOTAL_EXPOSURE_PERCENT == 80

\* The symbols of the model: two of the engine's default list and one more
\* symbol of its precision tables, held on the exchange but not traded.
AllSymbols == {"ETHUSDT", "BNBUSDT", "LTCUSDT"}

QUANTITY_PRECISION(symbol) ==
  CASE symbol = "ETHUSDT" -> 3
    [] symbol = "BNBUSDT" -> 2
    [] symbol = "LTCUSDT" -> 3
    [] OTHER -> 3

PRICE_PRECISION(symbol) ==
  CASE symbol = "ETHUSDT" -> 2
    [] symbol = "BNBUSDT" -> 2
    [] symbol = "LTCUSDT" -> 2
    [] OTHER -> 4

\* ------------------------------------------------------------------ bounds
\* Invocations suspended at an await at the same time.
MaxTasks == 2
\* Closed trades kept in the trade memory before no new work is started.
MaxTrades == 2
\* Hours the clock runs.
MaxNow == 3
\* Decision cycles (invocations of analyzeAndDecide) begun in a run.
MaxCycles == 2
\* Consecutive losing trades at the head of a loaded trade history.
MaxStreak == 6
\* Tenths of a second the gateway's clock runs.
MaxClock == 102
\* Groups of callers that enter waitForSlot in a run.
MaxArrivals == 3
\* Callers asleep in waitForSlot at one time.
MaxWaiters == 2
\* start() calls followed through (each one adds a handler and a socket).
MaxStarts == 2
\* Sockets in existence, and reconnect timeouts pending, at one time.
MaxSockets == 3
\* The UTC hour at which the clock starts: midnight falls inside a run.
StartHour == 22

\* ------------------------------------------------------------- arithmetic
Max(a, b) == IF a >= b THEN a ELSE b
Min(a, b) == IF a <= b THEN a ELSE b
Abs(a) == IF a >= 0 THEN a ELSE 0 - a

RECURSIVE Pow10(_)
Pow10(n) == IF n <= 0 THEN 1 ELSE 10 * Pow10(n - 1)

\* floor(num/den) for den > 0 and any num.
FloorDiv(num, den) == num \div den

\* Number.prototype.toFixed followed by parseFloat, for the non-negative
\* rational num/den measured in units of which 10^digits make one whole:
\* the nearest multiple of `unit`, the larger one on a tie.
ToFixed(num, den, unit) == unit * FloorDiv(2 * num + unit * den, 2 * unit * den)

\* isValidNumber(value): a number that is neither NaN nor infinite.
IsValidNumber(v) == ~IsNaN(v)

VARIABLES
  isRunning,         \* state.isRunning
  symbols,           \* this.symbols, the traded symbols
  positions,         \* state.currentPositions: symbol -> Position or NoPos
  openingPositions,  \* the opening marker set
  closingPositions,  \* the closing marker set
  balance,           \* state.balance
  availableBalance,  \* state.availableBalance
  todayPnl,          \* state.todayPnl
  todayTrades,       \* state.todayTrades
  trades,            \* memorySystem.trades, newest first
  exchange,          \* the exchange's own positions: symbol -> record or NoPos
  now,               \* Date.now(), in hours
  tasks,             \* bag of invocations suspended at an await
  cycles,            \* decision cycles begun so far
  lastResetDate,     \* state.lastResetDate, a day number
  db,                \* the BotState row 'main' of the database, or NoRow
  dbOnline,          \* whether the database answers
  burstPending,      \* symbols the initial analysis has yet to reach
  exited,            \* the process has terminated
  orderTimestamps,   \* RateLimiter.orderTimestamps, in tenths of a second
  waiters,           \* bag of the wake-up times of callers asleep in waitForSlot
  clock,             \* Date.now() of the gateway, in tenths of a second
  arrivals,          \* groups of callers that have entered waitForSlot
  starting,          \* start() calls suspended in initialize()
  timers,            \* live sets of the four intervals that start() creates
  analysisInterval,  \* whether the interval handles hold a timer
  listeners,         \* handlers registered for binanceWs 'trade'
  ws,                \* BinanceWebSocket.ws: "null" or the state of the socket
  orphans,           \* bag of the states of the sockets ws no longer refers to
  streams,           \* BinanceWebSocket.streams, as the symbols subscribed
  reconnectAttempts, \* BinanceWebSocket.reconnectAttempts
  reconnectTimers,   \* pending timeouts of attemptReconnect
  lastStep           \* the handler segment that produced this state

vars == <<isRunning, symbols, positions, openingPositions, closingPositions,
          balance, availableBalance, todayPnl, todayTrades, trades, exchange,
          now, tasks, cycles, lastResetDate, db, dbOnline,
          burstPending, exited, orderTimestamps, waiters, clock, arrivals,
          starting, timers, analysisInterval, listeners, ws, orphans, streams,
          reconnectAttempts, reconnectTimers, lastStep>>

\* The engine's own state, its database and the exchange.
engineVars ==
  <<isRunning, symbols, positions, openingPositions, closingPositions,
    balance, availableBalance, todayPnl, todayTrades, trades, exchange, now,
    tasks, cycles, lastResetDate, db, dbOnline, burstPending, exited>>

\* The gateway's rate limiter. The engine's actions take a gateway call by
\* its result; the limiter inside the call is modelled by the actions below.
limiterVars == <<orderTimestamps, waiters, clock, arrivals>>

\* The timers and the stream client that start() and stop() manage.
streamVars ==
  <<starting, timers, analysisInterval, listeners, ws, orphans, streams,
    reconnectAttempts, reconnectTimers>>

NoPos == [symbol |-> "none"]

\* ------------------------------------------------------------------ inputs
\* Trade and ticker prices: 9, 9.5, 10 and 11 USD.
MarketPrices == {9 * PriceDen, 1900, 10 * PriceDen, 11 * PriceDen}

\* analysis.price as the analyzer may report it.
AnalysisPrices == {9 * PriceDen, 0, NaN}

\* (state.balance, state.availableBalance) as the exchange may report them.
BalancePairs == {<<2, 2>>, <<0, 0>>}

Decision(action, confidence, leverage, size, sl, tp) ==
  [action |-> action, confidence |-> confidence, leverage |-> leverage,
   positionSizePercent |-> size, stopLoss |-> sl, takeProfit |-> tp]

\* GPTDecision values the decision provider may return.
Decisions ==
  { Decision("BUY", 80, 5, 5, 1895, 2100),
    Decision("SELL", 80, 20, 10, 2200, 1800),
    Decision("BUY", 80, 0, 5, 1900, 2100),
    Decision("SELL", 80, 1, 0, 2100, 1900),
    Decision("BUY", 80, 1, 5, 0, 2100),
    Decision("BUY", 30, 1, 5, 1900, 2100),
    Decision("HOLD", 80, 1, 5, 1900, 2100) }

Fill(price, qty) == [price |-> price, qty |-> qty]

\* Order responses of the gateway: avgPrice and the fill set, parsed.
OrderResponses ==
  { [avgPrice |-> 10 * PriceDen, fills |-> <<>>],
    [avgPrice |-> 10 * PriceDen, fills |-> <<Fill(1999, 1), Fill(10 * PriceDen, 2)>>],
    [avgPrice |-> 0, fills |-> <<Fill(9 * PriceDen, 1), Fill(2100, 2)>>],
    [avgPrice |-> 0, fills |-> <<>>],
    [avgPrice |-> 0, fills |-> <<Fill(10 * PriceDen, 0)>>],
    [avgPrice |-> 0, fills |-> <<Fill(0, 1)>>],
    [avgPrice |-> NaN, fills |-> <<Fill(NaN, 1)>>],
    [avgPrice |-> 0 - 10 * PriceDen, fills |-> <<Fill(0 - 10 * PriceDen, 1)>>] }

\* LOT_SIZE step sizes the exchange reports, in quantity units: 0.001, 0.01,
\* 0.5 and 1; 0 stands for a symbol without a LOT_SIZE filter.
StepSizes == {0, 1, 10, 500, 1000}

ExchangePosition(entryPrice, positionAmt, leverage) ==
  [entryPrice |-> entryPrice, positionAmt |-> positionAmt, leverage |-> leverage]

\* Positions the account may hold on the exchange when the engine starts.
InitialExchange ==
  { [s \in AllSymbols |-> NoPos],
    [s \in AllSymbols |->
       IF s = "LTCUSDT" THEN ExchangePosition(10 * PriceDen, 750, 5) ELSE NoPos],
    [s \in AllSymbols |->
       IF s = "ETHUSDT" THEN ExchangePosition(10 * PriceDen, 0 - 50, 2)
       ELSE IF s = "LTCUSDT" THEN ExchangePosition(0, 10, 1) ELSE NoPos] }

\* ------------------------------------------------------------------- tasks
Spawn(t) == tasks (+) SetToBag({t})
Finish(t) == tasks (-) SetToBag({t})
Replace(t, u) == (tasks (-) SetToBag({t})) (+) SetToBag({u})
Suspended == BagToSet(tasks)
HasRoom == BagCardinality(tasks) < MaxTasks /\ Len(trades) < MaxTrades

Step(op, symbol, outcome) == [op |-> op, symbol |-> symbol, outcome |-> outcome]

\* ----------------------------------------------------------------- position
Position(symbol, side, entryPrice, quantity, leverage, stopLoss, takeProfit, entryTime, positionSizePercent) ==
  [symbol |-> symbol, side |-> side, entryPrice |-> entryPrice,
   quantity |-> quantity, leverage |-> leverage, stopLoss |-> stopLoss,
   takeProfit |-> takeProfit, entryTime |-> entryTime,
   positionSizePercent |-> positionSizePercent]

HasPosition(symbol) == positions[symbol] # NoPos

\* updateBalance(): the reported pair, or the old values when the call fails.
UpdateBalance(pair) ==
  /\ balance' = pair[1]
  /\ availableBalance' = pair[2]

BalanceReports == BalancePairs \cup {<<balance, availableBalance>>}

\* binanceClient.getPositions(): the symbols with a non-zero amount, or the
\* empty list when the request fails.
GetPositions == {{s \in AllSymbols : exchange[s] # NoPos}, {}}

\* initialize(): one ledger entry per usable exchange position.
LoadedPosition(s, p) ==
  Position(s, IF p.positionAmt > 0 THEN "LONG" ELSE "SHORT", p.entryPrice,
           Abs(p.positionAmt), IF p.leverage = 0 THEN 1 ELSE p.leverage,
           0, 0, now, 0)

Initialize(reported) ==
  [s \in AllSymbols |->
     IF s \in reported /\ exchange[s].entryPrice > 0 /\ Abs(exchange[s].positionAmt) > 0
     THEN LoadedPosition(s, exchange[s])
     ELSE positions[s]]

\* ------------------------------------------------------- persisted state
\* The database before the row 'main' was ever written.
NoRow == [lastResetDate |-> -1]

BotStateRow(pnl, count, day) ==
  [todayPnl |-> pnl, todayTrades |-> count, lastResetDate |-> day]

\* new Date().toISOString().split('T')[0]: the UTC day of the clock.
Today == (StartHour + now) \div 24

\* saveStateToDb(): the upsert stores the figures; a failed write is only
\* logged and leaves the row as it was.
SaveStateToDb(row, pnl, count, day) ==
  IF dbOnline THEN BotStateRow(pnl, count, day) ELSE row

\* The engine's daily figures together with the row, as one value.
Daily(pnl, count, day, row) ==
  [todayPnl |-> pnl, todayTrades |-> count, lastResetDate |-> day, db |-> row]

\* loadStateFromDb(): the upsert creates the row when it is missing; the
\* figures of the row are restored when the row is of today, and reset
\* (and saved) otherwise; a failed upsert leaves the engine's values.
LoadStateFromDb ==
  LET row == IF db = NoRow THEN BotStateRow(0, 0, Today) ELSE db
  IN  IF ~dbOnline
      THEN Daily(todayPnl, todayTrades, lastResetDate, db)
      ELSE IF row.lastResetDate = Today
      THEN Daily(row.todayPnl, row.todayTrades, Today, row)
      ELSE Daily(0, 0, Today, SaveStateToDb(row, 0, 0, Today))

\* checkAndResetDaily(), applied to the figures `d`.
CheckAndResetDaily(d) ==
  IF d.lastResetDate # Today
  THEN Daily(0, 0, Today, SaveStateToDb(d.db, 0, 0, Today))
  ELSE d

\* The assignment of the figures `d` to the engine and the database.
SetDaily(d) ==
  /\ todayPnl' = d.todayPnl
  /\ todayTrades' = d.todayTrades
  /\ lastResetDate' = d.lastResetDate
  /\ db' = d.db

\* ------------------------------------------------- timers and stream client
maxReconnectAttempts == 10

\* Before the first start(): no timer, no handler, no socket.
StreamsIdle ==
  /\ starting = 0
  /\ timers = 0
  /\ analysisInterval = FALSE
  /\ listeners = 0
  /\ ws = "null"
  /\ orphans = EmptyBag
  /\ streams = {}
  /\ reconnectAttempts = 0
  /\ reconnectTimers = 0

\* The sockets that exist: the one ws refers to and the ones it no longer
\* refers to.
Sockets == BagCardinality(orphans) + (IF ws \in {"connecting", "open"} THEN 1 ELSE 0)

\* connect(streams): the streams are added and a new socket replaces the
\* one ws referred to, which is neither closed nor stripped of its handlers.
Connect(wanted) ==
  /\ streams' = streams \cup wanted
  /\ ws' = "connecting"
  /\ orphans' = IF ws \in {"connecting", "open"}
                THEN orphans (+) SetToBag({ws}) ELSE orphans

\* disconnect(): ws.close(), ws = null, streams.clear(). The handlers of
\* the socket stay in place and its close event is still to come.
Disconnect ==
  /\ ws' = "null"
  /\ orphans' = IF ws \in {"connecting", "open"}
                THEN orphans (+) SetToBag({"closing"}) ELSE orphans
  /\ streams' = {}

\* attemptReconnect()
AttemptReconnect ==
  IF reconnectAttempts >= maxReconnectAttempts
  THEN UNCHANGED <<reconnectAttempts, reconnectTimers>>
  ELSE /\ reconnectAttempts' = reconnectAttempts + 1
       /\ reconnectTimers' = reconnectTimers + 1

\* connectStreams(): connect(streams), then one more handler for 'trade'
\* (and for 'kline' and 'markPrice'); no handler is ever removed.
ConnectStreams ==
  /\ Connect(symbols)
  /\ listeners' = listeners + 1

\* startAnalysisLoop, startPositionMonitoring, startBalanceUpdates and
\* startDailyReset: four new intervals, whose handles overwrite the fields.
StartTimers ==
  /\ timers' = timers + 1
  /\ analysisInterval' = TRUE

\* The clearInterval calls of stop(): the timers the fields refer to.
ClearTimers ==
  /\ timers' = IF analysisInterval THEN timers - 1 ELSE timers
  /\ analysisInterval' = FALSE

\* start() from the end of initialize(): its results, then the streams, the
\* timers, the timeout of the initial analysis, checkAndResetDaily and
\* isRunning.
StartBody ==
  /\ burstPending' = symbols
  /\ SetDaily(CheckAndResetDaily(LoadStateFromDb))
  /\ \E pair \in BalanceReports, reported \in GetPositions :
       /\ UpdateBalance(pair)
       /\ positions' = Initialize(reported)
  /\ ConnectStreams
  /\ StartTimers
  /\ isRunning' = TRUE
  /\ lastStep' = Step("start", "none", "ok")
  /\ UNCHANGED <<symbols, openingPositions, closingPositions, trades, exchange,
                 now, tasks, cycles, dbOnline, exited, limiterVars,
                 reconnectAttempts, reconnectTimers>>

Init ==
  /\ isRunning = FALSE
  /\ symbols = {"ETHUSDT"}
  /\ positions = [s \in AllSymbols |-> NoPos]
  /\ openingPositions = {}
  /\ closingPositions = {}
  /\ balance = 0
  /\ availableBalance = 0
  /\ todayPnl = 0
  /\ todayTrades = 0
  /\ trades = <<>>
  /\ exchange \in InitialExchange
  /\ now = 0
  /\ tasks = EmptyBag
  /\ cycles = 0
  /\ lastResetDate = Today
  /\ db = NoRow
  /\ dbOnline = TRUE
  /\ burstPending = {}
  /\ exited = FALSE
  /\ orderTimestamps = <<>>
  /\ waiters = EmptyBag
  /\ clock = 0
  /\ arrivals = 0
  /\ StreamsIdle
  /\ lastStep = Step("init", "none", "ok")

\* start(): initialize() (loadStateFromDb, updateBalance, the positions),
\* then the timers, the streams and the timeout of the initial analysis,
\* checkAndResetDaily, then isRunning.
Start ==
  /\ ~exited
  /\ ~isRunning
  /\ starting = 0
  /\ listeners < MaxStarts
  /\ StartBody
  /\ UNCHANGED starting

\* start() up to the await of initialize(): the test of isRunning.
StartCall ==
  /\ ~exited
  /\ ~isRunning
  /\ starting + listeners < MaxStarts
  /\ starting' = starting + 1
  /\ lastStep' = Step("start", "none", "initializing")
  /\ UNCHANGED <<engineVars, limiterVars, timers, analysisInterval, listeners,
                 ws, orphans, streams, reconnectAttempts, reconnectTimers>>

\* start() from the end of initialize(), with no second look at isRunning.
StartResume ==
  /\ starting > 0
  /\ starting' = starting - 1
  /\ StartBody

\* stop(): isRunning is cleared, the timers and the streams are shut down.
Stop ==
  /\ isRunning
  /\ isRunning' = FALSE
  /\ ClearTimers
  /\ Disconnect
  /\ lastStep' = Step("stop", "none", "ok")
  /\ UNCHANGED <<symbols, positions, openingPositions, closingPositions,
                 balance, availableBalance, todayPnl, todayTrades, trades,
                 exchange, now, tasks, cycles, lastResetDate, db, dbOnline,
                 burstPending, exited, limiterVars, starting, listeners,
                 reconnectAttempts, reconnectTimers>>

\* The 'open' event of a socket: reconnectAttempts = 0.
SocketOpen ==
  /\ \/ /\ ws = "connecting"
        /\ ws' = "open"
        /\ UNCHANGED orphans
     \/ /\ BagIn("connecting", orphans)
        /\ orphans' = (orphans (-) SetToBag({"connecting"})) (+) SetToBag({"open"})
        /\ UNCHANGED ws
  /\ reconnectAttempts' = 0
  /\ lastStep' = Step("ws", "none", "open")
  /\ UNCHANGED <<engineVars, limiterVars, starting, timers, analysisInterval,
                 listeners, streams, reconnectTimers>>

\* The 'close' event of a socket, which its handler answers with
\* attemptReconnect(): of a socket that disconnect() closed, or of one that
\* the network or the exchange dropped.
SocketClose ==
  /\ reconnectTimers < MaxSockets
  /\ \/ /\ ws \in {"connecting", "open"}
        /\ ws' = "closed"
        /\ UNCHANGED orphans
        /\ lastStep' = Step("ws", "none", "dropped")
     \/ \E socket \in BagToSet(orphans) :
          /\ orphans' = orphans (-) SetToBag({socket})
          /\ UNCHANGED ws
          /\ lastStep' = Step("ws", "none",
                              IF socket = "closing" THEN "closed" ELSE "dropped")
  /\ AttemptReconnect
  /\ UNCHANGED <<engineVars, limiterVars, starting, timers, analysisInterval,
                 listeners, streams>>

\* The timeout of attemptReconnect fires: connect(Array.from(this.streams)).
ReconnectFires ==
  /\ reconnectTimers > 0
  /\ Sockets < MaxSockets
  /\ reconnectTimers' = reconnectTimers - 1
  /\ Connect(streams)
  /\ lastStep' = Step("ws", "none", "reconnect")
  /\ UNCHANGED <<engineVars, limiterVars, starting, timers, analysisInterval,
                 listeners, reconnectAttempts>>

\* A firing of the balance timer: updateBalance(), then saveStateToDb().
BalanceUpdate ==
  /\ isRunning
  /\ \E pair \in BalanceReports : UpdateBalance(pair)
  /\ db' = SaveStateToDb(db, todayPnl, todayTrades, lastResetDate)
  /\ lastStep' = Step("balanceUpdate", "none", "ok")
  /\ UNCHANGED <<isRunning, symbols, positions, openingPositions,
                 closingPositions, todayPnl, todayTrades, trades, exchange,
                 now, tasks, cycles, lastResetDate, dbOnline, burstPending, exited, limiterVars, streamVars>>

\* A firing of the daily-reset timer: checkAndResetDaily().
DailyReset ==
  /\ isRunning
  /\ SetDaily(CheckAndResetDaily(Daily(todayPnl, todayTrades, lastResetDate, db)))
  /\ lastStep' = Step("checkAndResetDaily", "none",
                      IF lastResetDate # Today THEN "reset" ELSE "same_day")
  /\ UNCHANGED <<isRunning, symbols, positions, openingPositions,
                 closingPositions, balance, availableBalance, trades, exchange,
                 now, tasks, cycles, dbOnline, burstPending, exited, limiterVars, streamVars>>

\* The runtime ends the process on an unhandled rejection (or, in a build
\* that only warns, does not): nothing of the engine runs afterwards.
ProcessExit ==
  /\ lastStep.outcome = "unhandled_rejection"
  /\ exited' = TRUE
  /\ isRunning' = FALSE
  /\ tasks' = EmptyBag
  /\ burstPending' = {}
  /\ starting' = 0
  /\ timers' = 0
  /\ analysisInterval' = FALSE
  /\ listeners' = 0
  /\ ws' = "null"
  /\ orphans' = EmptyBag
  /\ streams' = {}
  /\ reconnectAttempts' = 0
  /\ reconnectTimers' = 0
  /\ lastStep' = Step("process", "none", "exit")
  /\ UNCHANGED <<symbols, positions, openingPositions, closingPositions,
                 balance, availableBalance, todayPnl, todayTrades, trades,
                 exchange, now, cycles, lastResetDate, db, dbOnline,
                 limiterVars>>

\* The database becomes unreachable, or reachable again.
DbOutage ==
  /\ dbOnline' = ~dbOnline
  /\ lastStep' = Step("database", "none", IF dbOnline THEN "down" ELSE "up")
  /\ UNCHANGED <<isRunning, symbols, positions, openingPositions,
                 closingPositions, balance, availableBalance, todayPnl,
                 todayTrades, trades, exchange, now, tasks, cycles,
                 lastResetDate, db, burstPending, exited, limiterVars, streamVars>>

\* ------------------------------------------------------ exposure controller
\* Margins are sums of quantity*entryPrice/leverage; every modelled leverage
\* divides MAX_LEVERAGE, so a margin is MarginNum/ExposureDen USD exactly.
ExposureDen == PriceDen * QtyDen * MAX_LEVERAGE

MarginNum(p) == p.quantity * p.entryPrice * (MAX_LEVERAGE \div p.leverage)

RECURSIVE SumMargin(_, _)
SumMargin(ledger, S) ==
  IF S = {} THEN 0
  ELSE LET s == CHOOSE x \in S : TRUE
       IN MarginNum(ledger[s]) + SumMargin(ledger, S \ {s})

\* calculateTotalExposure().exposureUsd, in 1/ExposureDen USD.
CalculateTotalExposure(ledger) ==
  SumMargin(ledger, {s \in AllSymbols : ledger[s] # NoPos})

\* The admission check admitting every request when balance <= 0.
ExposureExceededFailOpen(exposureNum, capitalNum, bal) ==
  /\ bal > 0
  /\ exposureNum + capitalNum * (ExposureDen \div 100)
       > MAX_TOTAL_EXPOSURE_PERCENT * bal * (ExposureDen \div 100)

\* (exposureUsd + requiredMargin) / balance * 100 > MAX_TOTAL_EXPOSURE_PERCENT,
\* requiredMargin being capitalNum/100 USD; both sides scaled by
\* balance * ExposureDen / 100.
ExposureExceeded(exposureNum, capitalNum, bal) ==
  IF bal > 0
  THEN exposureNum + capitalNum * (ExposureDen \div 100)
         > MAX_TOTAL_EXPOSURE_PERCENT * bal * (ExposureDen \div 100)
  ELSE 100 > MAX_TOTAL_EXPOSURE_PERCENT

\* canOpenNewPosition(requiredMargin).allowed
CanOpenNewPosition(capitalNum) ==
  ~ExposureExceeded(CalculateTotalExposure(positions), capitalNum, balance)

\* ------------------------------------------------------------ openPosition
BeginOpen(marks, symbol) == marks \cup {symbol}

\* An exit of openPosition that leaves the marker behind (the engine before
\* the finally block was added).
EndOpenLeaks(marks, symbol) == marks

\* The finally block of openPosition.
EndOpen(marks, symbol) == marks \ {symbol}

\* openPosition without its guard (audit item #3: no lock on openPosition).
OpenGuardMissing(symbol) == FALSE

\* The guard at the head of openPosition.
OpenGuard(symbol) == symbol \in openingPositions

ClampLeverage(leverage) == Min(Max(1, leverage), MAX_LEVERAGE)
ClampSize(size) == Min(size, MAX_POSITION_SIZE_PERCENT)

\* capitalToUse = availableBalance * positionSizePercent / 100, in 1/100 USD.
CapitalNum(size) == availableBalance * ClampSize(size)

\* quantity = capitalToUse * leverage / price as the fraction
\* QuantityNum / price of a quantity unit.
QuantityNum(size, leverage) ==
  CapitalNum(size) * ClampLeverage(leverage) * ((PriceDen * QtyDen) \div 100)

QuantityUnit(symbol) == Pow10(3 - QUANTITY_PRECISION(symbol))

\* parseFloat(quantity.toFixed(quantityPrecision))
RoundQuantity(symbol, num, den) == ToFixed(num, den, QuantityUnit(symbol))

\* openPosition from its head to its first await: the outcome, and the
\* values the rest of the invocation uses.
OpenSync(symbol, decision, price) ==
  LET out(o) == [outcome |-> o, leverage |-> 0, size |-> 0, capital |-> 0,
                 quantity |-> 0]
  IN
  IF OpenGuard(symbol) THEN out("duplicate")
  ELSE IF ~IsValidNumber(price) \/ price <= 0 THEN out("invalid_price")
  ELSE IF ~IsValidNumber(decision.leverage) \/ decision.leverage < 1
    THEN out("invalid_leverage")
  ELSE IF ~IsValidNumber(decision.positionSizePercent)
          \/ decision.positionSizePercent <= 0
    THEN out("invalid_size")
  ELSE IF ~CanOpenNewPosition(CapitalNum(decision.positionSizePercent))
    THEN out("exposure")
  ELSE IF QuantityNum(decision.positionSizePercent, decision.leverage) <= 0
    THEN out("invalid_quantity")
  ELSE [outcome |-> "started",
        leverage |-> ClampLeverage(decision.leverage),
        size |-> ClampSize(decision.positionSizePercent),
        capital |-> CapitalNum(decision.positionSizePercent),
        quantity |-> RoundQuantity(symbol,
                       QuantityNum(decision.positionSizePercent, decision.leverage),
                       price)]

OpenTask(pc, symbol, decision, price, leverage, size, capital, quantity, position) ==
  [kind |-> "open", pc |-> pc, symbol |-> symbol, decision |-> decision,
   price |-> price, leverage |-> leverage, size |-> size, capital |-> capital,
   quantity |-> quantity, position |-> position]

\* openPosition(symbol, decision, analysis), called by the invocation `caller`
\* of analyzeAndDecide, up to the await of setLeverage.
OpenPositionCall(caller, symbol, decision, price) ==
  LET r == OpenSync(symbol, decision, price) IN
  /\ tasks' = IF r.outcome = "started"
              THEN Replace(caller, OpenTask("setLeverage", symbol, decision, price,
                                            r.leverage, r.size, r.capital, r.quantity,
                                            NoPos))
              ELSE Finish(caller)
  /\ openingPositions' =
       CASE r.outcome = "duplicate" -> openingPositions
         [] r.outcome = "started" -> BeginOpen(openingPositions, symbol)
         [] OTHER -> EndOpen(BeginOpen(openingPositions, symbol), symbol)
  /\ lastStep' = Step("openPosition", symbol, r.outcome)
  /\ UNCHANGED <<isRunning, symbols, positions, closingPositions, balance,
                 availableBalance, todayPnl, todayTrades, trades, exchange, now,
                 cycles, lastResetDate, db, dbOnline, burstPending, exited, limiterVars, streamVars>>

\* An exit of openPosition through its finally block.
OpenExit(t, outcome) ==
  /\ tasks' = Finish(t)
  /\ openingPositions' = EndOpen(openingPositions, t.symbol)
  /\ lastStep' = Step("openPosition", t.symbol, outcome)

\* await setLeverage(), await setMarginType()
OpenSetLeverage(t) ==
  /\ t.kind = "open" /\ t.pc = "setLeverage"
  /\ \/ /\ tasks' = Replace(t, [t EXCEPT !.pc = "createOrder"])
        /\ lastStep' = Step("openPosition", t.symbol, "leverage_set")
        /\ UNCHANGED openingPositions
     \/ OpenExit(t, "gateway_error")
  /\ UNCHANGED <<isRunning, symbols, positions, closingPositions, balance,
                 availableBalance, todayPnl, todayTrades, trades, exchange, now,
                 cycles, lastResetDate, db, dbOnline, burstPending, exited, limiterVars, streamVars>>

\* ---------------------------------------------------------------- gateway
\* The exchange's position after a market order is filled (one-way mode): a
\* reduce-only order never grows or flips the position.
Filled(held, side, quantity, reduceOnly, price, leverage) ==
  LET old == IF held = NoPos THEN 0 ELSE held.positionAmt
      signed == IF side = "BUY" THEN quantity ELSE 0 - quantity
      cut == IF old > 0 THEN Max(old + signed, 0) ELSE Min(old + signed, 0)
      amt == IF reduceOnly THEN cut ELSE old + signed
  IN IF amt = 0 THEN NoPos
     ELSE IF held = NoPos THEN ExchangePosition(price, amt, leverage)
     ELSE [held EXCEPT !.positionAmt = amt]

\* An exchange that fills a reduce-only order whatever it holds.
ReducesAlways(held, side) == TRUE

\* A reduce-only order is accepted only against a position it reduces.
Reduces(held, side) ==
  /\ held # NoPos
  /\ IF side = "SELL" THEN held.positionAmt > 0 ELSE held.positionAmt < 0

\* ------------------------------------------------------------- entry price
RECURSIVE SumFillQty(_)
SumFillQty(fills) ==
  IF fills = <<>> THEN 0
  ELSE LET rest == SumFillQty(Tail(fills))
       IN IF IsNaN(Head(fills).qty) \/ IsNaN(rest) THEN NaN
          ELSE Head(fills).qty + rest

RECURSIVE SumFillValue(_)
SumFillValue(fills) ==
  IF fills = <<>> THEN 0
  ELSE LET rest == SumFillValue(Tail(fills))
           f == Head(fills)
       IN IF IsNaN(f.price) \/ IsNaN(f.qty) \/ IsNaN(rest) THEN NaN
          ELSE f.price * f.qty + rest

\* The entry price openPosition derives from the order response.
DeriveEntryPrice(order, price) ==
  IF ~IsNaN(order.avgPrice) /\ order.avgPrice > 0 THEN order.avgPrice
  ELSE IF Len(order.fills) > 0
    THEN LET totalQty == SumFillQty(order.fills)
             totalValue == SumFillValue(order.fills)
         IN IF ~IsNaN(totalQty) /\ totalQty > 0
            THEN IF IsNaN(totalValue) THEN NaN ELSE totalValue \div totalQty
            ELSE price
  ELSE price

\* openPosition without the entry-price validation (audit item #10).
EntryPriceAcceptedAlways(entryPrice) == TRUE

\* if (!entryPrice || entryPrice <= 0) throw
EntryPriceAccepted(entryPrice) ==
  ~(IsNaN(entryPrice) \/ entryPrice = 0 \/ entryPrice <= 0)

\* --------------------------------------------------------------- SL and TP
PriceUnit(symbol) == PriceDen \div Pow10(PRICE_PRECISION(symbol))

\* decision.stopLoss || entryPrice * (1 -/+ 1/100), rounded to the price
\* precision (the decision type carries no stopLossPercent: the default 1).
OpenStopLoss(symbol, decision, entryPrice) ==
  IF decision.stopLoss # 0 THEN ToFixed(decision.stopLoss, 1, PriceUnit(symbol))
  ELSE IF decision.action = "BUY"
    THEN ToFixed(entryPrice * 99, 100, PriceUnit(symbol))
    ELSE ToFixed(entryPrice * 101, 100, PriceUnit(symbol))

\* decision.takeProfit || entryPrice * (1 +/- 0.5/100), rounded likewise.
OpenTakeProfit(symbol, decision, entryPrice) ==
  IF decision.takeProfit # 0 THEN ToFixed(decision.takeProfit, 1, PriceUnit(symbol))
  ELSE IF decision.action = "BUY"
    THEN ToFixed(entryPrice * 201, 200, PriceUnit(symbol))
    ELSE ToFixed(entryPrice * 199, 200, PriceUnit(symbol))

\* await createOrder(), then the entry price, SL and TP, up to the awaits
\* inside the Position literal.
OpenCreateOrder(t) ==
  /\ t.kind = "open" /\ t.pc = "createOrder"
  /\ \/ /\ OpenExit(t, "gateway_error")
        /\ UNCHANGED <<exchange>>
     \/ /\ t.quantity > 0
        /\ \E order \in OrderResponses :
             LET side == IF t.decision.action = "BUY" THEN "BUY" ELSE "SELL"
                 entryPrice == DeriveEntryPrice(order, t.price)
                 position ==
                   Position(t.symbol,
                            IF t.decision.action = "BUY" THEN "LONG" ELSE "SHORT",
                            entryPrice, t.quantity, t.leverage,
                            OpenStopLoss(t.symbol, t.decision, entryPrice),
                            OpenTakeProfit(t.symbol, t.decision, entryPrice),
                            now, t.size)
             IN /\ exchange' = [exchange EXCEPT ![t.symbol] =
                                  Filled(@, side, t.quantity, FALSE, t.price, t.leverage)]
                /\ IF EntryPriceAccepted(entryPrice)
                   THEN /\ tasks' = Replace(t, [t EXCEPT !.pc = "entryConditions",
                                                         !.position = position])
                        /\ lastStep' = Step("openPosition", t.symbol, "ordered")
                        /\ UNCHANGED openingPositions
                   ELSE OpenExit(t, "invalid_entry_price")
  /\ UNCHANGED <<isRunning, symbols, positions, closingPositions, balance,
                 availableBalance, todayPnl, todayTrades, trades, now,
                 cycles, lastResetDate, db, dbOnline, burstPending, exited, limiterVars, streamVars>>

\* What the fear-greed and the news services answer: a value, or a failure
\* of the request.
LookupReplies == {"value", "error"}

\* The lookups rethrowing the failure of their request.
LookupRejectsOnError(reply) == reply = "error"

\* fearGreedIndex.get() and getNews() catch the failure of their request and
\* answer the neutral value (50, no news and so the score 0): neither rejects.
LookupRejects(reply) == FALSE

StoredOutcomes == {"stored", "stored_neutral"}

\* await fearGreedIndex.get(), await getNewsSummary(), then the ledger entry
\* and the trade count.
OpenStore(t) ==
  /\ t.kind = "open" /\ t.pc = "entryConditions"
  /\ \E fearGreed \in LookupReplies, news \in LookupReplies :
       IF LookupRejects(fearGreed) \/ LookupRejects(news)
       THEN /\ OpenExit(t, "lookup_error")
            /\ UNCHANGED <<positions, todayTrades>>
       ELSE /\ positions' = [positions EXCEPT ![t.symbol] = t.position]
            /\ todayTrades' = todayTrades + 1
            /\ tasks' = Replace(t, [t EXCEPT !.pc = "persist"])
            /\ lastStep' = Step("openPosition", t.symbol,
                                IF "error" \in {fearGreed, news}
                                THEN "stored_neutral" ELSE "stored")
            /\ UNCHANGED openingPositions
  /\ UNCHANGED <<isRunning, symbols, closingPositions, balance, availableBalance,
                 todayPnl, trades, exchange, now,
                 cycles, lastResetDate, db, dbOnline, burstPending, exited, limiterVars, streamVars>>

\* await updateBalance(), await saveStateToDb(), then the finally block.
OpenPersist(t) ==
  /\ t.kind = "open" /\ t.pc = "persist"
  /\ \E pair \in BalanceReports : UpdateBalance(pair)
  /\ tasks' = Finish(t)
  /\ openingPositions' = EndOpen(openingPositions, t.symbol)
  /\ db' = SaveStateToDb(db, todayPnl, todayTrades, lastResetDate)
  /\ lastStep' = Step("openPosition", t.symbol, "opened")
  /\ UNCHANGED <<isRunning, symbols, positions, closingPositions, todayPnl,
                 todayTrades, trades, exchange, now,
                 cycles, lastResetDate, dbOnline, burstPending, exited, limiterVars, streamVars>>

\* ---------------------------------------------------------- analyzeAndDecide
AnalyzeTask(symbol, hasPosition, caller) ==
  [kind |-> "analyze", symbol |-> symbol, hasPosition |-> hasPosition,
   caller |-> caller]

\* The initial analysis (the timeout set by start, which does not look at
\* isRunning) or, after it, a firing of the analysis timer reaches
\* `symbol`: analyzeAndDecide up to its first await.
AnalyzeBegin(symbol) ==
  /\ symbol \in burstPending \/ (isRunning /\ burstPending = {})
  /\ symbol \in symbols
  /\ HasRoom
  /\ cycles < MaxCycles
  /\ cycles' = cycles + 1
  /\ tasks' = Spawn(AnalyzeTask(symbol, HasPosition(symbol),
                               IF symbol \in burstPending THEN "burst" ELSE "timer"))
  /\ burstPending' = burstPending \ {symbol}
  /\ lastStep' = Step("analyzeAndDecide", symbol, "begin")
  /\ UNCHANGED <<isRunning, symbols, positions, openingPositions,
                 closingPositions, balance, availableBalance, todayPnl,
                 todayTrades, trades, exchange, now, lastResetDate, db,
                 dbOnline, exited, limiterVars, streamVars>>

\* memorySystem.getConsecutiveLosses()
RECURSIVE GetConsecutiveLosses(_)
GetConsecutiveLosses(list) ==
  IF list = <<>> THEN 0
  ELSE IF Head(list).pnl < 0 THEN 1 + GetConsecutiveLosses(Tail(list))
  ELSE 0

\* Math.max(5, positionSizePercent * 0.5) after three losses in a row.
AdjustedSize(size, losses) ==
  IF losses >= 3 THEN (IF size > 10 THEN size \div 2 ELSE 5) ELSE size

\* The SL/TP revision without its direction test.
SlTpValidAlways(position, decision) == TRUE

\* The SL/TP revision of a decision cycle for an open position.
SlTpValid(position, decision) ==
  \/ /\ position.side = "LONG"
     /\ decision.stopLoss < position.entryPrice
     /\ decision.takeProfit > position.entryPrice
  \/ /\ position.side = "SHORT"
     /\ decision.stopLoss > position.entryPrice
     /\ decision.takeProfit < position.entryPrice

AbortOutcomes(caller) ==
  IF caller = "burst" THEN {"no_decision", "unhandled_rejection"}
  ELSE {"no_decision"}

\* analyzeAndDecide gives up: the quick screen finds no opportunity, or one
\* of its awaited calls throws. The analysis timer catches what is thrown;
\* the initial analysis does not, and the promise is rejected unhandled.
AnalyzeAbort(t) ==
  /\ t.kind = "analyze"
  /\ tasks' = Finish(t)
  /\ \E outcome \in AbortOutcomes(t.caller) :
       lastStep' = Step("analyzeAndDecide", t.symbol, outcome)
  /\ UNCHANGED <<isRunning, symbols, positions, openingPositions,
                 closingPositions, balance, availableBalance, todayPnl,
                 todayTrades, trades, exchange, now,
                 cycles, lastResetDate, db, dbOnline, burstPending, exited, limiterVars, streamVars>>

\* analyzeAndDecide from the decision to its end or to the first await of
\* openPosition.
AnalyzeDecide(t) ==
  /\ t.kind = "analyze"
  /\ \E decision \in Decisions, price \in AnalysisPrices :
       LET losses == GetConsecutiveLosses(trades)
           ret(o) ==
             /\ tasks' = Finish(t)
             /\ lastStep' = Step("analyzeAndDecide", t.symbol, o)
             /\ UNCHANGED <<isRunning, symbols, positions, openingPositions,
                            closingPositions, balance, availableBalance,
                            todayPnl, todayTrades, trades, exchange, now,
                 cycles, lastResetDate, db, dbOnline, burstPending, exited, limiterVars, streamVars>>
       IN
       IF ~t.hasPosition /\ decision.action # "HOLD"
          /\ decision.confidence >= MIN_CONFIDENCE
       THEN IF losses >= 5 THEN ret("cooling_down")
            ELSE IF decision.stopLoss = 0 \/ decision.takeProfit = 0
              THEN ret("missing_sl_tp")
            ELSE OpenPositionCall(
                   t, t.symbol,
                   [decision EXCEPT !.positionSizePercent = AdjustedSize(@, losses)],
                   price)
       ELSE IF t.hasPosition /\ HasPosition(t.symbol)
               /\ decision.takeProfit # 0 /\ decision.stopLoss # 0
               /\ SlTpValid(positions[t.symbol], decision)
         THEN /\ positions' = [positions EXCEPT
                                 ![t.symbol].takeProfit = decision.takeProfit,
                                 ![t.symbol].stopLoss = decision.stopLoss]
              /\ tasks' = Finish(t)
              /\ lastStep' = Step("analyzeAndDecide", t.symbol, "sl_tp_updated")
              /\ UNCHANGED <<isRunning, symbols, openingPositions,
                             closingPositions, balance, availableBalance,
                             todayPnl, todayTrades, trades, exchange, now,
                 cycles, lastResetDate, db, dbOnline, burstPending, exited, limiterVars, streamVars>>
         ELSE ret("no_action")

\* ---------------------------------------------------------------- P&L
\* calculatePnl(position, currentPrice): the leveraged percentage return,
\* as the numerator of a fraction whose denominator is position.entryPrice.
CalculatePnl(position, currentPrice) ==
  IF ~IsValidNumber(currentPrice) \/ ~IsValidNumber(position.entryPrice)
     \/ position.entryPrice = 0
  THEN 0
  ELSE IF position.side = "LONG"
    THEN (currentPrice - position.entryPrice) * 100 * position.leverage
    ELSE (position.entryPrice - currentPrice) * 100 * position.leverage

PriceDiff(position, exitPrice) ==
  IF position.side = "LONG" THEN exitPrice - position.entryPrice
  ELSE position.entryPrice - exitPrice

\* The commission charged as 0.04% of the entry value alone (audit item #4).
ClosePnlUsdEntryFeeOnly(position, exitPrice) ==
  PriceDiff(position, exitPrice) * position.quantity * FeeDen
    - 2 * position.entryPrice * position.quantity

\* pnlUsd of closePosition, in 1/(PriceDen*QtyDen*FeeDen) USD: the gross
\* P&L less 0.02% of the entry value and 0.02% of the exit value.
ClosePnlUsd(position, exitPrice) ==
  LET grossPnlUsd == PriceDiff(position, exitPrice) * position.quantity * FeeDen
      entryValue == position.entryPrice * position.quantity
      exitValue == exitPrice * position.quantity
      entryCommission == entryValue
      exitCommission == exitValue
      commissionFee == entryCommission + exitCommission
  IN grossPnlUsd - commissionFee

\* pnlUsd of handlePositionClosed, in the same unit.
ExternalPnlUsd(position, currentPrice) ==
  LET grossPnlUsd == PriceDiff(position, currentPrice) * position.quantity * FeeDen
      entryValue == position.entryPrice * position.quantity
      exitValue == currentPrice * position.quantity
      commissionFee == entryValue + exitValue
  IN grossPnlUsd - commissionFee

\* The record memorySystem.addTrade() puts at the head of the trade list.
\* Of the Position it holds the fields that never change after the open;
\* stopLoss, takeProfit and exitTime are left out.
TradeMemory(position, exitPrice, pnl, pnlUsd, exitReason) ==
  [symbol |-> position.symbol, side |-> position.side,
   entryPrice |-> position.entryPrice, exitPrice |-> exitPrice,
   quantity |-> position.quantity, leverage |-> position.leverage,
   pnl |-> pnl, pnlUsd |-> pnlUsd, entryTime |-> position.entryTime,
   exitReason |-> exitReason]

AddTrade(trade) == <<trade>> \o trades

\* What an invocation keeps of the Position object it was handed: the
\* fields that are never assigned after the open.
Ref(position) == [position EXCEPT !.stopLoss = 0, !.takeProfit = 0]

\* ------------------------------------------------------------ closePosition
BeginClose(marks, symbol) == marks \cup {symbol}

\* closePosition without its finally block.
EndCloseLeaks(marks, symbol) == marks

\* The finally block of closePosition.
EndClose(marks, symbol) == marks \ {symbol}

\* closePosition without its guard.
CloseGuardMissing(symbol) == FALSE

\* The guard at the head of closePosition.
CloseGuard(symbol) == symbol \in closingPositions

CloseTask(pc, position, exitPrice, reason) ==
  [kind |-> "close", pc |-> pc, symbol |-> position.symbol,
   position |-> Ref(position), exitPrice |-> exitPrice, reason |-> reason,
   quantity |-> 0, pnlUsd |-> 0]

\* closePosition(position, exitPrice, reason) up to the await of
\* getSymbolInfo; `caller` is the suspended invocation that calls it, or
\* NoPos when a stream handler calls it.
ClosePositionCall(caller, position, exitPrice, reason) ==
  LET rest == IF caller = NoPos THEN tasks ELSE Finish(caller) IN
  IF CloseGuard(position.symbol)
  THEN /\ tasks' = rest
       /\ lastStep' = Step("closePosition", position.symbol, "duplicate")
       /\ UNCHANGED closingPositions
  ELSE /\ tasks' = rest (+) SetToBag({CloseTask("getSymbolInfo", position,
                                                exitPrice, reason)})
       /\ closingPositions' = BeginClose(closingPositions, position.symbol)
       /\ lastStep' = Step("closePosition", position.symbol, "started")

\* An exit of closePosition through its finally block.
CloseExit(t, outcome) ==
  /\ tasks' = Finish(t)
  /\ closingPositions' = EndClose(closingPositions, t.symbol)
  /\ lastStep' = Step("closePosition", t.symbol, outcome)

\* The digits toFixed keeps when handed Math.max(0, -Math.log10(stepSize)):
\* the integer part of that number.
ClosePrecision(stepSize) ==
  IF stepSize <= 1 THEN 3
  ELSE IF stepSize <= 10 THEN 2
  ELSE IF stepSize <= 100 THEN 1
  ELSE 0

\* parseFloat((Math.floor(quantity / stepSize) * stepSize).toFixed(precision))
RoundCloseQuantity(quantity, stepSize) ==
  ToFixed(FloorDiv(quantity, stepSize) * stepSize, 1,
          Pow10(3 - ClosePrecision(stepSize)))

\* await getSymbolInfo(), then the closing quantity.
CloseGetSymbolInfo(t) ==
  /\ t.kind = "close" /\ t.pc = "getSymbolInfo"
  /\ \/ CloseExit(t, "gateway_error")
     \/ \E reportedStep \in StepSizes :
          LET stepSize == IF reportedStep = 0 THEN 1 ELSE reportedStep IN
          /\ tasks' = Replace(t, [t EXCEPT
                                    !.pc = "createOrder",
                                    !.quantity =
                                       RoundCloseQuantity(t.position.quantity, stepSize)])
          /\ lastStep' = Step("closePosition", t.symbol, "rounded")
          /\ UNCHANGED closingPositions
  /\ UNCHANGED <<isRunning, symbols, positions, openingPositions, balance,
                 availableBalance, todayPnl, todayTrades, trades, exchange, now,
                 cycles, lastResetDate, db, dbOnline, burstPending, exited, limiterVars, streamVars>>

\* await createOrder(reduceOnly), then the P&L and the trade record.
CloseCreateOrder(t) ==
  /\ t.kind = "close" /\ t.pc = "createOrder"
  /\ LET side == IF t.position.side = "LONG" THEN "SELL" ELSE "BUY" IN
     \/ /\ CloseExit(t, "order_failed")
        /\ UNCHANGED <<exchange, trades>>
     \/ /\ t.quantity > 0
        /\ Reduces(exchange[t.symbol], side)
        /\ exchange' = [exchange EXCEPT ![t.symbol] =
                          Filled(@, side, t.quantity, TRUE, t.exitPrice,
                                 t.position.leverage)]
        /\ trades' = AddTrade(TradeMemory(t.position, t.exitPrice,
                                          CalculatePnl(t.position, t.exitPrice),
                                          ClosePnlUsd(t.position, t.exitPrice),
                                          t.reason))
        /\ tasks' = Replace(t, [t EXCEPT !.pc = "learnFromTrade",
                                         !.pnlUsd = ClosePnlUsd(t.position, t.exitPrice)])
        /\ lastStep' = Step("closePosition", t.symbol, "recorded")
        /\ UNCHANGED closingPositions
  /\ UNCHANGED <<isRunning, symbols, positions, openingPositions, balance,
                 availableBalance, todayPnl, todayTrades, now,
                 cycles, lastResetDate, db, dbOnline, burstPending, exited, limiterVars, streamVars>>

\* await learnFromTrade(), then the ledger and today's P&L.
CloseLearn(t) ==
  /\ t.kind = "close" /\ t.pc = "learnFromTrade"
  /\ \/ /\ CloseExit(t, "learn_error")
        /\ UNCHANGED <<positions, todayPnl>>
     \/ /\ positions' = [positions EXCEPT ![t.symbol] = NoPos]
        /\ todayPnl' = todayPnl + t.pnlUsd
        /\ tasks' = Replace(t, [t EXCEPT !.pc = "persist"])
        /\ lastStep' = Step("closePosition", t.symbol, "removed")
        /\ UNCHANGED closingPositions
  /\ UNCHANGED <<isRunning, symbols, openingPositions, balance, availableBalance,
                 todayTrades, trades, exchange, now,
                 cycles, lastResetDate, db, dbOnline, burstPending, exited, limiterVars, streamVars>>

\* await updateBalance(), await saveStateToDb(), then the finally block.
ClosePersist(t) ==
  /\ t.kind = "close" /\ t.pc = "persist"
  /\ \E pair \in BalanceReports : UpdateBalance(pair)
  /\ db' = SaveStateToDb(db, todayPnl, todayTrades, lastResetDate)
  /\ CloseExit(t, "closed")
  /\ UNCHANGED <<isRunning, symbols, positions, openingPositions, todayPnl,
                 todayTrades, trades, exchange, now,
                 cycles, lastResetDate, dbOnline, burstPending, exited, limiterVars, streamVars>>

\* ---------------------------------------------------------- exit evaluator
\* A stop that follows the price in both directions.
TrailingStopFollows(position, currentPrice) ==
  IF position.side = "LONG"
  THEN (currentPrice * 199) \div 200
  ELSE (currentPrice * 201) \div 200

\* The trailing stop of checkPositionExit: 0.5% behind the price.
TrailingStop(position, currentPrice) ==
  IF position.side = "LONG"
  THEN Max(position.stopLoss, (currentPrice * 199) \div 200)
  ELSE Min(position.stopLoss, (currentPrice * 201) \div 200)

\* The timeout rule firing when the hold time reaches the limit.
ExitReasonAtLimit(position, currentPrice) ==
  IF position.side = "LONG" /\ currentPrice <= position.stopLoss THEN "sl"
  ELSE IF position.side = "SHORT" /\ currentPrice >= position.stopLoss THEN "sl"
  ELSE IF position.side = "LONG" /\ currentPrice >= position.takeProfit THEN "tp"
  ELSE IF position.side = "SHORT" /\ currentPrice <= position.takeProfit THEN "tp"
  ELSE IF now - position.entryTime >= MAX_HOLD_TIME_HOURS THEN "timeout"
  ELSE "none"

\* The SL and TP tests with strict comparisons.
ExitReasonStrict(position, currentPrice) ==
  IF position.side = "LONG" /\ currentPrice < position.stopLoss THEN "sl"
  ELSE IF position.side = "SHORT" /\ currentPrice > position.stopLoss THEN "sl"
  ELSE IF position.side = "LONG" /\ currentPrice > position.takeProfit THEN "tp"
  ELSE IF position.side = "SHORT" /\ currentPrice < position.takeProfit THEN "tp"
  ELSE IF now - position.entryTime > MAX_HOLD_TIME_HOURS THEN "timeout"
  ELSE "none"

\* The close reason checkPositionExit finds, or "none".
ExitReason(position, currentPrice) ==
  IF position.side = "LONG" /\ currentPrice <= position.stopLoss THEN "sl"
  ELSE IF position.side = "SHORT" /\ currentPrice >= position.stopLoss THEN "sl"
  ELSE IF position.side = "LONG" /\ currentPrice >= position.takeProfit THEN "tp"
  ELSE IF position.side = "SHORT" /\ currentPrice <= position.takeProfit THEN "tp"
  ELSE IF now - position.entryTime > MAX_HOLD_TIME_HOURS THEN "timeout"
  ELSE "none"

\* handleTrade(data) -> checkPositionExit(position, data.price), up to the
\* first await of closePosition.
HandleTrade(symbol) ==
  /\ isRunning
  /\ symbol \in symbols
  /\ HasPosition(symbol)
  /\ HasRoom
  /\ \E currentPrice \in MarketPrices :
       LET position == positions[symbol]
           reason == ExitReason(position, currentPrice)
       IN
       IF position.entryPrice <= 0 \/ position.quantity <= 0
       THEN /\ positions' = [positions EXCEPT ![symbol] = NoPos]
            /\ lastStep' = Step("checkPositionExit", symbol, "evicted")
            /\ UNCHANGED <<tasks, closingPositions>>
       ELSE IF reason # "none"
       THEN /\ ClosePositionCall(NoPos, position, currentPrice, reason)
            /\ UNCHANGED positions
       ELSE IF CalculatePnl(position, currentPrice) > position.entryPrice
               /\ TrailingStop(position, currentPrice) # position.stopLoss
       THEN /\ positions' = [positions EXCEPT ![symbol].stopLoss =
                               TrailingStop(position, currentPrice)]
            /\ lastStep' = Step("checkPositionExit", symbol, "trailed")
            /\ UNCHANGED <<tasks, closingPositions>>
       ELSE /\ lastStep' = Step("checkPositionExit", symbol, "held")
            /\ UNCHANGED <<positions, tasks, closingPositions>>
  /\ UNCHANGED <<isRunning, symbols, openingPositions, balance, availableBalance,
                 todayPnl, todayTrades, trades, exchange, now,
                 cycles, lastResetDate, db, dbOnline, burstPending, exited, limiterVars, streamVars>>

\* manualClose(symbol) up to the await of getPrice.
ManualClose(symbol) ==
  /\ ~exited
  /\ HasPosition(symbol)
  /\ HasRoom
  /\ tasks' = Spawn([kind |-> "manualClose", symbol |-> symbol,
                     position |-> Ref(positions[symbol])])
  /\ lastStep' = Step("manualClose", symbol, "begin")
  /\ UNCHANGED <<isRunning, symbols, positions, openingPositions,
                 closingPositions, balance, availableBalance, todayPnl,
                 todayTrades, trades, exchange, now,
                 cycles, lastResetDate, db, dbOnline, burstPending, exited, limiterVars, streamVars>>

\* manualClose after getPrice: closePosition(position, price, 'manual'), or
\* the rejection of getPrice.
ManualCloseResume(t) ==
  /\ t.kind = "manualClose"
  /\ \/ /\ tasks' = Finish(t)
        /\ lastStep' = Step("manualClose", t.symbol, "gateway_error")
        /\ UNCHANGED closingPositions
     \/ \E price \in MarketPrices :
          ClosePositionCall(t, t.position, price, "manual")
  /\ UNCHANGED <<isRunning, symbols, positions, openingPositions, balance,
                 availableBalance, todayPnl, todayTrades, trades, exchange, now,
                 cycles, lastResetDate, db, dbOnline, burstPending, exited, limiterVars, streamVars>>

\* ----------------------------------------------------------- reconciliation
\* The check at the head of handlePositionClosed.
ExternalCloseGuard(symbol) == symbol \in closingPositions

ExternalTask(pc, position) ==
  [kind |-> "external", pc |-> pc, symbol |-> position.symbol,
   position |-> Ref(position), pnlUsd |-> 0]

\* A firing of the position-monitoring timer, up to the await of
\* getPositions; the reply is what the exchange holds at that moment.
ReconcileBegin ==
  /\ isRunning
  /\ HasRoom
  /\ \E reported \in GetPositions :
       tasks' = Spawn([kind |-> "reconcile", reported |-> reported])
  /\ lastStep' = Step("positionMonitoring", "none", "begin")
  /\ UNCHANGED <<isRunning, symbols, positions, openingPositions,
                 closingPositions, balance, availableBalance, todayPnl,
                 todayTrades, trades, exchange, now,
                 cycles, lastResetDate, db, dbOnline, burstPending, exited, limiterVars, streamVars>>

\* The symbols of the ledger for which the loop calls handlePositionClosed.
MissingOnExchange(reported) ==
  {s \in AllSymbols : HasPosition(s) /\ s \notin reported}

\* The loop over the ledger: handlePositionClosed(position), up to its await
\* of getPrice, for every ledger symbol the reply does not hold.
ReconcileLoop(t) ==
  /\ t.kind = "reconcile"
  /\ LET started == {s \in MissingOnExchange(t.reported) : ~ExternalCloseGuard(s)}
     IN /\ BagCardinality(tasks) - 1 + Cardinality(started) <= MaxTasks
        /\ tasks' = Finish(t) (+)
                      SetToBag({ExternalTask("getPrice", positions[s]) : s \in started})
        /\ lastStep' = Step("positionMonitoring", "none",
                            IF started = {} THEN "in_sync" ELSE "external_close")
  /\ UNCHANGED <<isRunning, symbols, positions, openingPositions,
                 closingPositions, balance, availableBalance, todayPnl,
                 todayTrades, trades, exchange, now,
                 cycles, lastResetDate, db, dbOnline, burstPending, exited, limiterVars, streamVars>>

\* The end of handlePositionClosed, after its try block.
ExternalEvict(t, outcome) ==
  /\ positions' = [positions EXCEPT ![t.symbol] = NoPos]
  /\ tasks' = Finish(t)
  /\ lastStep' = Step("handlePositionClosed", t.symbol, outcome)

\* await getPrice(), then the P&L and the trade record.
ExternalGetPrice(t) ==
  /\ t.kind = "external" /\ t.pc = "getPrice"
  /\ \/ /\ ExternalEvict(t, "gateway_error")
        /\ UNCHANGED trades
     \/ \E currentPrice \in MarketPrices :
          /\ trades' = AddTrade(TradeMemory(t.position, currentPrice,
                                            CalculatePnl(t.position, currentPrice),
                                            ExternalPnlUsd(t.position, currentPrice),
                                            "manual"))
          /\ tasks' = Replace(t, [t EXCEPT
                                    !.pc = "learnFromTrade",
                                    !.pnlUsd = ExternalPnlUsd(t.position, currentPrice)])
          /\ lastStep' = Step("handlePositionClosed", t.symbol, "recorded")
          /\ UNCHANGED positions
  /\ UNCHANGED <<isRunning, symbols, openingPositions, closingPositions, balance,
                 availableBalance, todayPnl, todayTrades, exchange, now,
                 cycles, lastResetDate, db, dbOnline, burstPending, exited, limiterVars, streamVars>>

\* await learnFromTrade(), then today's P&L.
ExternalLearn(t) ==
  /\ t.kind = "external" /\ t.pc = "learnFromTrade"
  /\ \/ /\ ExternalEvict(t, "learn_error")
        /\ UNCHANGED todayPnl
     \/ /\ todayPnl' = todayPnl + t.pnlUsd
        /\ tasks' = Replace(t, [t EXCEPT !.pc = "saveState"])
        /\ lastStep' = Step("handlePositionClosed", t.symbol, "accounted")
        /\ UNCHANGED positions
  /\ UNCHANGED <<isRunning, symbols, openingPositions, closingPositions, balance,
                 availableBalance, todayTrades, trades, exchange, now,
                 cycles, lastResetDate, db, dbOnline, burstPending, exited, limiterVars, streamVars>>

\* await saveStateToDb(), then the eviction.
ExternalSave(t) ==
  /\ t.kind = "external" /\ t.pc = "saveState"
  /\ db' = SaveStateToDb(db, todayPnl, todayTrades, lastResetDate)
  /\ ExternalEvict(t, "evicted")
  /\ UNCHANGED <<isRunning, symbols, openingPositions, closingPositions, balance,
                 availableBalance, todayPnl, todayTrades, trades, exchange, now,
                 cycles, lastResetDate, dbOnline, burstPending, exited, limiterVars, streamVars>>

\* -------------------------------------------------------------- environment
\* An hour passes.
Advance ==
  /\ now < MaxNow
  /\ now' = now + 1
  /\ lastStep' = Step("clock", "none", "hour")
  /\ UNCHANGED <<isRunning, symbols, positions, openingPositions,
                 closingPositions, balance, availableBalance, todayPnl,
                 todayTrades, trades, exchange, tasks,
                 cycles, lastResetDate, db, dbOnline, burstPending, exited, limiterVars, streamVars>>

\* The exchange closes a position on its own (liquidation, or a close made
\* on the exchange by hand).
ExchangeCloses(symbol) ==
  /\ exchange[symbol] # NoPos
  /\ exchange' = [exchange EXCEPT ![symbol] = NoPos]
  /\ lastStep' = Step("exchange", symbol, "closed")
  /\ UNCHANGED <<isRunning, symbols, positions, openingPositions,
                 closingPositions, balance, availableBalance, todayPnl,
                 todayTrades, trades, now, tasks,
                 cycles, lastResetDate, db, dbOnline, burstPending, exited, limiterVars, streamVars>>

\* ------------------------------------------------------------ rate limiter
MAX_ORDERS_PER_10S == 300
\* this.MAX_ORDERS_PER_10S * 0.9
OrderThreshold == (MAX_ORDERS_PER_10S * 9) \div 10
\* 10000 ms
OrderWindow == 100
\* The extra 100 ms of a wait.
WaitMargin == 1

\* orderTimestamps.filter(t => now - t < 10000)
CleanOld(stamps) == SelectSeq(stamps, LAMBDA t : clock - t < OrderWindow)

\* Callers that enter waitForSlot(true) at the same instant.
Callers == {1, 2, OrderThreshold - 1}
\* Amounts by which the clock moves.
ClockSteps == {50, 51}

\* waitForSlot(true) up to its await, for `k` callers one after the other
\* at the present clock: while the window holds fewer stamps than the
\* threshold a caller pushes Date.now() and proceeds; the callers after that
\* sleep until the oldest stamp leaves the window. (The request branch
\* needs 1080 requests in a minute.)
WaitForSlot(k, stamps, asleep) ==
  LET kept == CleanOld(stamps)
      proceed == Min(k, Max(0, OrderThreshold - Len(kept)))
      pushed == kept \o [i \in 1..proceed |-> clock]
      waitTime == OrderWindow - (clock - pushed[1]) + WaitMargin
  IN  <<pushed,
        IF k = proceed THEN asleep
        ELSE asleep (+) [w \in {clock + waitTime} |-> k - proceed]>>

\* `k` callers of createOrder reach the limiter.
OrderArrives(k) ==
  /\ arrivals < MaxArrivals
  /\ arrivals' = arrivals + 1
  /\ LET after == WaitForSlot(k, orderTimestamps, waiters)
     IN  /\ BagCardinality(after[2]) <= MaxWaiters
         /\ orderTimestamps' = after[1]
         /\ waiters' = after[2]
         /\ lastStep' = Step("waitForSlot", "none",
                             IF after[2] = waiters THEN "proceeds" ELSE "waits")
  /\ UNCHANGED clock
  /\ UNCHANGED <<engineVars, streamVars>>

\* The timeout of a sleeping caller fires: it pushes Date.now() and
\* proceeds, without looking at the window again.
OrderResumes(wake) ==
  /\ BagIn(wake, waiters)
  /\ clock >= wake
  /\ orderTimestamps' = Append(orderTimestamps, clock)
  /\ waiters' = waiters (-) SetToBag({wake})
  /\ lastStep' = Step("waitForSlot", "none", "resumes")
  /\ UNCHANGED <<clock, arrivals>>
  /\ UNCHANGED <<engineVars, streamVars>>

\* Time passes at the gateway.
ClockAdvance ==
  /\ \E d \in ClockSteps :
       /\ clock + d <= MaxClock
       /\ clock' = clock + d
  /\ lastStep' = Step("gatewayClock", "none", "tick")
  /\ UNCHANGED <<orderTimestamps, waiters, arrivals>>
  /\ UNCHANGED <<engineVars, streamVars>>

\* ------------------------------------------------------------ specification
Next ==
  \/ Start
  \/ StartCall
  \/ StartResume
  \/ Stop
  \/ SocketOpen
  \/ SocketClose
  \/ ReconnectFires
  \/ BalanceUpdate
  \/ DailyReset
  \/ DbOutage
  \/ ProcessExit
  \/ ClockAdvance
  \/ \E k \in Callers : OrderArrives(k)
  \/ \E wake \in BagToSet(waiters) : OrderResumes(wake)
  \/ Advance
  \/ ReconcileBegin
  \/ \E s \in AllSymbols :
       \/ AnalyzeBegin(s)
       \/ HandleTrade(s)
       \/ ManualClose(s)
       \/ ExchangeCloses(s)
  \/ \E t \in Suspended :
       \/ AnalyzeAbort(t)
       \/ AnalyzeDecide(t)
       \/ OpenSetLeverage(t)
       \/ OpenCreateOrder(t)
       \/ OpenStore(t)
       \/ OpenPersist(t)
       \/ ManualCloseResume(t)
       \/ CloseGetSymbolInfo(t)
       \/ CloseCreateOrder(t)
       \/ CloseLearn(t)
       \/ ClosePersist(t)
       \/ ReconcileLoop(t)
       \/ ExternalGetPrice(t)
       \/ ExternalLearn(t)
       \/ ExternalSave(t)

Spec == Init /\ [][Next]_vars

\* ------------------------------------------------------------- sub-systems
\* The decision cycles and the opens they make.
NextOpen ==
  \/ Start
  \/ \E s \in AllSymbols : AnalyzeBegin(s)
  \/ \E t \in Suspended :
       \/ AnalyzeAbort(t)
       \/ AnalyzeDecide(t)
       \/ OpenSetLeverage(t)
       \/ OpenCreateOrder(t)
       \/ OpenStore(t)
       \/ OpenPersist(t)

SpecOpen == Init /\ [][NextOpen]_vars

\* The engine configured with two traded symbols.
InitTwoSymbols ==
  /\ isRunning = FALSE
  /\ symbols = {"ETHUSDT", "BNBUSDT"}
  /\ positions = [s \in AllSymbols |-> NoPos]
  /\ openingPositions = {}
  /\ closingPositions = {}
  /\ balance = 0
  /\ availableBalance = 0
  /\ todayPnl = 0
  /\ todayTrades = 0
  /\ trades = <<>>
  /\ exchange \in InitialExchange
  /\ now = 0
  /\ tasks = EmptyBag
  /\ cycles = 0
  /\ lastResetDate = Today
  /\ db = NoRow
  /\ dbOnline = TRUE
  /\ burstPending = {}
  /\ exited = FALSE
  /\ orderTimestamps = <<>>
  /\ waiters = EmptyBag
  /\ clock = 0
  /\ arrivals = 0
  /\ StreamsIdle
  /\ lastStep = Step("init", "none", "ok")

SpecExposure == InitTwoSymbols /\ [][NextOpen]_vars

\* The exits: trade ticks, manual closes and reconciliation, for the
\* positions the engine loads when it starts.
NextClose ==
  \/ Start
  \/ ReconcileBegin
  \/ \E s \in AllSymbols :
       \/ HandleTrade(s)
       \/ ManualClose(s)
       \/ ExchangeCloses(s)
  \/ \E t \in Suspended :
       \/ ManualCloseResume(t)
       \/ CloseGetSymbolInfo(t)
       \/ CloseCreateOrder(t)
       \/ CloseLearn(t)
       \/ ClosePersist(t)
       \/ ReconcileLoop(t)
       \/ ExternalGetPrice(t)
       \/ ExternalLearn(t)
       \/ ExternalSave(t)

SpecClose == Init /\ [][NextClose]_vars

\* Opens and tick-driven closes together.
NextOpenClose ==
  \/ Start
  \/ \E s \in AllSymbols :
       \/ AnalyzeBegin(s)
       \/ HandleTrade(s)
  \/ \E t \in Suspended :
       \/ AnalyzeAbort(t)
       \/ AnalyzeDecide(t)
       \/ OpenSetLeverage(t)
       \/ OpenCreateOrder(t)
       \/ OpenStore(t)
       \/ OpenPersist(t)
       \/ CloseGetSymbolInfo(t)
       \/ CloseCreateOrder(t)
       \/ CloseLearn(t)
       \/ ClosePersist(t)

SpecOpenClose == Init /\ [][NextOpenClose]_vars

\* Opens and reconciliation together.
NextOpenRecon ==
  \/ Start
  \/ ReconcileBegin
  \/ \E s \in AllSymbols : AnalyzeBegin(s)
  \/ \E t \in Suspended :
       \/ AnalyzeAbort(t)
       \/ AnalyzeDecide(t)
       \/ OpenSetLeverage(t)
       \/ OpenCreateOrder(t)
       \/ OpenStore(t)
       \/ OpenPersist(t)
       \/ ReconcileLoop(t)
       \/ ExternalGetPrice(t)
       \/ ExternalLearn(t)
       \/ ExternalSave(t)

SpecOpenRecon == Init /\ [][NextOpenRecon]_vars

\* The exits the engine itself makes as time passes: trade ticks and manual
\* closes, for the positions the engine loads when it starts.
NextExit ==
  \/ Start
  \/ Advance
  \/ \E s \in AllSymbols :
       \/ HandleTrade(s)
       \/ ManualClose(s)
  \/ \E t \in Suspended :
       \/ ManualCloseResume(t)
       \/ CloseGetSymbolInfo(t)
       \/ CloseCreateOrder(t)
       \/ CloseLearn(t)
       \/ ClosePersist(t)

SpecExit == Init /\ [][NextExit]_vars

\* Opens and the exit evaluations of trade ticks as time passes, up to the
\* first await of the closes they start.
NextHold ==
  \/ Start
  \/ Advance
  \/ \E s \in AllSymbols :
       \/ AnalyzeBegin(s)
       \/ HandleTrade(s)
  \/ \E t \in Suspended :
       \/ AnalyzeAbort(t)
       \/ AnalyzeDecide(t)
       \/ OpenSetLeverage(t)
       \/ OpenCreateOrder(t)
       \/ OpenStore(t)
       \/ OpenPersist(t)

SpecHold == Init /\ [][NextHold]_vars

\* The periodic poll, trade ticks and the closes they start, as time passes.
NextPoll ==
  \/ Start
  \/ Advance
  \/ ReconcileBegin
  \/ \E s \in AllSymbols :
       \/ HandleTrade(s)
       \/ ExchangeCloses(s)
  \/ \E t \in Suspended :
       \/ CloseGetSymbolInfo(t)
       \/ CloseCreateOrder(t)
       \/ CloseLearn(t)
       \/ ClosePersist(t)
       \/ ReconcileLoop(t)
       \/ ExternalGetPrice(t)
       \/ ExternalLearn(t)
       \/ ExternalSave(t)

\* What the runtime guarantees: the engine is started, the clock runs, the
\* 10 s timer of startPositionMonitoring keeps firing and every awaited call
\* settles. Trade ticks arrive only when the market trades.
FairPoll ==
  /\ WF_vars(Start)
  /\ WF_vars(Advance)
  /\ WF_vars(ReconcileBegin)
  /\ WF_vars(\E t \in Suspended : CloseGetSymbolInfo(t))
  /\ WF_vars(\E t \in Suspended : CloseCreateOrder(t))
  /\ WF_vars(\E t \in Suspended : CloseLearn(t))
  /\ WF_vars(\E t \in Suspended : ClosePersist(t))
  /\ WF_vars(\E t \in Suspended : ReconcileLoop(t))
  /\ WF_vars(\E t \in Suspended : ExternalGetPrice(t))
  /\ WF_vars(\E t \in Suspended : ExternalLearn(t))
  /\ WF_vars(\E t \in Suspended : ExternalSave(t))

SpecPoll == Init /\ [][NextPoll]_vars /\ FairPoll

\* Restarts: the engine is stopped and started again while it closes the
\* positions it loaded, the timers save and reset the daily figures,
\* midnight passes and the database has outages.
NextRestart ==
  \/ Start
  \/ Stop
  \/ BalanceUpdate
  \/ DailyReset
  \/ DbOutage
  \/ Advance
  \/ \E s \in AllSymbols : HandleTrade(s)
  \/ \E t \in Suspended :
       \/ CloseGetSymbolInfo(t)
       \/ CloseCreateOrder(t)
       \/ CloseLearn(t)
       \/ ClosePersist(t)

SpecRestart == Init /\ [][NextRestart]_vars

\* The analysis, initial and periodic, next to the balance timer, with
\* the end of the process on an unhandled rejection.
NextAnalysis ==
  \/ Start
  \/ BalanceUpdate
  \/ ProcessExit
  \/ \E s \in AllSymbols : AnalyzeBegin(s)
  \/ \E t \in Suspended :
       \/ AnalyzeAbort(t)
       \/ AnalyzeDecide(t)
       \/ OpenSetLeverage(t)
       \/ OpenCreateOrder(t)
       \/ OpenStore(t)
       \/ OpenPersist(t)

SpecAnalysis == InitTwoSymbols /\ [][NextAnalysis]_vars

\* The rate limiter under callers of createOrder.
NextLimiter ==
  \/ ClockAdvance
  \/ \E k \in Callers : OrderArrives(k)
  \/ \E wake \in BagToSet(waiters) : OrderResumes(wake)

SpecLimiter == Init /\ [][NextLimiter]_vars

\* A decision cycle of a running engine whose trade memory was loaded
\* (memorySystem.initialize) with a history that begins with losing trades.
LosingTrade ==
  LET position == Position("ETHUSDT", "LONG", 10 * PriceDen, 50, 2, 1900, 2100, 0, 5)
  IN  TradeMemory(position, 1900, CalculatePnl(position, 1900),
                  ClosePnlUsd(position, 1900), "sl")

LossStreaks == {[i \in 1..n |-> LosingTrade] : n \in 2..MaxStreak}

InitLossStreak ==
  /\ isRunning = TRUE
  /\ symbols = {"ETHUSDT"}
  /\ positions = [s \in AllSymbols |-> NoPos]
  /\ openingPositions = {}
  /\ closingPositions = {}
  /\ balance = 2
  /\ availableBalance = 2
  /\ todayPnl = 0
  /\ todayTrades = 0
  /\ trades \in LossStreaks
  /\ exchange = [s \in AllSymbols |-> NoPos]
  /\ now = 0
  /\ tasks = SetToBag({AnalyzeTask("ETHUSDT", FALSE, "timer")})
  /\ cycles = 1
  /\ lastResetDate = Today
  /\ db = BotStateRow(0, 0, Today)
  /\ dbOnline = TRUE
  /\ burstPending = {}
  /\ exited = FALSE
  /\ orderTimestamps = <<>>
  /\ waiters = EmptyBag
  /\ clock = 0
  /\ arrivals = 0
  /\ starting = 0
  /\ timers = 1
  /\ analysisInterval = TRUE
  /\ listeners = 1
  /\ ws = "open"
  /\ orphans = EmptyBag
  /\ streams = symbols
  /\ reconnectAttempts = 0
  /\ reconnectTimers = 0
  /\ lastStep = Step("analyzeAndDecide", "ETHUSDT", "begin")

NextStreak ==
  \E t \in Suspended :
    \/ AnalyzeAbort(t)
    \/ AnalyzeDecide(t)
    \/ OpenSetLeverage(t)
    \/ OpenCreateOrder(t)
    \/ OpenStore(t)
    \/ OpenPersist(t)

SpecStreak == InitLossStreak /\ [][NextStreak]_vars

\* The reconciliation timer alone, with positions the exchange closes on its
\* own.
NextRecon ==
  \/ Start
  \/ ReconcileBegin
  \/ \E s \in AllSymbols : ExchangeCloses(s)
  \/ \E t \in Suspended :
       \/ ReconcileLoop(t)
       \/ ExternalGetPrice(t)
       \/ ExternalLearn(t)
       \/ ExternalSave(t)

SpecRecon == Init /\ [][NextRecon]_vars

\* Decision cycles and opens of an engine that is started and stopped.
NextStopOpen ==
  \/ Start
  \/ Stop
  \/ \E s \in AllSymbols : AnalyzeBegin(s)
  \/ \E t \in Suspended :
       \/ AnalyzeAbort(t)
       \/ AnalyzeDecide(t)
       \/ OpenSetLeverage(t)
       \/ OpenCreateOrder(t)
       \/ OpenStore(t)
       \/ OpenPersist(t)

SpecStopOpen == Init /\ [][NextStopOpen]_vars

\* The calls of start() and stop() and the events of the stream client.
NextLifecycle ==
  \/ StartCall
  \/ StartResume
  \/ Stop
  \/ SocketOpen
  \/ SocketClose
  \/ ReconnectFires

SpecLifecycle == Init /\ [][NextLifecycle]_vars

\* -------------------------------------------------------------- properties
\* The invocations of openPosition (closePosition) for `symbol` that are
\* suspended at an await.
OpenInFlight(symbol) ==
  {t \in Suspended : t.kind = "open" /\ t.symbol = symbol}

CloseInFlight(symbol) ==
  {t \in Suspended : t.kind = "close" /\ t.symbol = symbol}

\* The outcomes of the synchronous head of openPosition.
OpenCallOutcomes ==
  {"duplicate", "invalid_price", "invalid_leverage", "invalid_size",
   "exposure", "invalid_quantity", "started"}

\* C1: a call of openPosition made while another invocation for the same
\* symbol is still suspended returns at the guard: it starts no invocation
\* that could submit an order (no task is added), and it leaves the ledger,
\* the markers, the trade count and the exchange as they were; so at most one
\* invocation per symbol is ever on its way to the order.
C1_OverlappingOpenIsNoOp ==
  [][/\ \A s \in AllSymbols :
          (/\ OpenInFlight(s) # {}
           /\ lastStep'.op = "openPosition"
           /\ lastStep'.symbol = s
           /\ lastStep'.outcome \in OpenCallOutcomes)
          => /\ lastStep'.outcome = "duplicate"
             /\ tasks' \sqsubseteq tasks
             /\ UNCHANGED <<positions, openingPositions, todayTrades, exchange>>
     /\ \A s \in AllSymbols :
          /\ Cardinality(OpenInFlight(s)') <= 1
          /\ \A t \in OpenInFlight(s)' : CopiesIn(t, tasks') = 1]_vars

\* C1 witness: a second call has just returned at the guard while the first
\* invocation for the symbol is suspended before its order.
C1_Witness ==
  /\ lastStep.op = "openPosition"
  /\ lastStep.outcome = "duplicate"
  /\ \E t \in OpenInFlight(lastStep.symbol) : t.pc \in {"setLeverage", "createOrder"}

\* C2: a call of closePosition made while another invocation for the same
\* symbol is still suspended returns at the guard: it starts no invocation
\* that could submit an order, records no trade and changes neither the
\* ledger, the markers nor the exchange; at most one invocation per symbol
\* is ever on its way to the reduce-only order.
C2_OverlappingCloseIsNoOp ==
  [][/\ \A s \in AllSymbols :
          (/\ CloseInFlight(s) # {}
           /\ lastStep'.op = "closePosition"
           /\ lastStep'.symbol = s
           /\ lastStep'.outcome \in {"duplicate", "started"})
          => /\ lastStep'.outcome = "duplicate"
             /\ tasks' \sqsubseteq tasks
             /\ UNCHANGED <<positions, closingPositions, trades, todayPnl, exchange>>
     /\ \A s \in AllSymbols :
          /\ Cardinality(CloseInFlight(s)') <= 1
          /\ \A t \in CloseInFlight(s)' : CopiesIn(t, tasks') = 1]_vars

\* C2 witness: a second call has just returned at the guard while a close
\* started by a trade tick is suspended before its order.
C2_Witness ==
  /\ lastStep.op = "closePosition"
  /\ lastStep.outcome = "duplicate"
  /\ \E t \in CloseInFlight(lastStep.symbol) :
       /\ t.pc \in {"getSymbolInfo", "createOrder"}
       /\ t.reason # "manual"

\* The margin, in 1/ExposureDen USD, that the admitted opens still on their
\* way to the ledger will add to it.
RECURSIVE SumCapital(_)
SumCapital(S) ==
  IF S = {} THEN 0
  ELSE LET t == CHOOSE x \in S : TRUE
       IN t.capital * (ExposureDen \div 100) + SumCapital(S \ {t})

PendingMargin ==
  SumCapital({t \in Suspended :
                /\ t.kind = "open"
                /\ t.pc \in {"setLeverage", "createOrder", "entryConditions"}})

\* C3: whenever openPosition admits an open, the margin of the ledger plus
\* the required margin of every admitted open not yet in the ledger (the new
\* one included) is at most MAX_TOTAL_EXPOSURE_PERCENT of the balance, in
\* whatever order the opens arrive.
C3_AdmittedOpensWithinCap ==
  [][(lastStep'.op = "openPosition" /\ lastStep'.outcome = "started")
     => (CalculateTotalExposure(positions') + PendingMargin'
           <= MAX_TOTAL_EXPOSURE_PERCENT * balance' * (ExposureDen \div 100))]_vars

\* The steps of handlePositionClosed that record a trade for `symbol` or
\* evict its Position.
ExternalRecordsOrEvicts(symbol) ==
  /\ lastStep'.op = "handlePositionClosed"
  /\ lastStep'.symbol = symbol
  /\ \/ trades' # trades
     \/ positions'[symbol] # positions[symbol]

\* C4: while a symbol is in the closing marker set, reconciliation neither
\* records a trade for it nor evicts its Position.
C4_ReconciliationSparesClosing ==
  [][\A s \in closingPositions : ~ExternalRecordsOrEvicts(s)]_vars

\* C5: while a symbol is in the opening marker set, reconciliation neither
\* records a trade for it nor evicts its Position.
C5_ReconciliationSparesOpening ==
  [][\A s \in openingPositions : ~ExternalRecordsOrEvicts(s)]_vars

\* C6: an open whose derived entry price is zero, negative or not a number
\* fails: that step changes neither the ledger nor the trade count and ends
\* the invocation; every Position an invocation carries towards the ledger,
\* and every Position in the ledger, has a positive entry price; and the
\* trade count moves only when such a Position is put in the ledger.
C6_InvalidEntryPriceStoresNothing ==
  [][/\ (lastStep'.op = "openPosition" /\ lastStep'.outcome = "invalid_entry_price")
          => /\ UNCHANGED <<positions, todayTrades>>
             /\ \A t \in Suspended' :
                  ~(t.kind = "open" /\ t.symbol = lastStep'.symbol)
     /\ \A t \in Suspended' :
          (t.kind = "open" /\ t.position # NoPos) => t.position.entryPrice > 0
     /\ \A s \in AllSymbols :
          positions'[s] # NoPos => positions'[s].entryPrice > 0
     /\ todayTrades' # todayTrades
          => \E t \in Suspended : /\ t.kind = "open"
                                  /\ t.position # NoPos
                                  /\ t.position.entryPrice > 0
                                  /\ positions'[t.symbol] = t.position]_vars

\* C6 witness: the order was filled on the exchange, the derived entry price
\* was rejected, and neither the ledger nor the trade count has moved.
C6_Witness ==
  /\ lastStep.op = "openPosition"
  /\ lastStep.outcome = "invalid_entry_price"
  /\ exchange[lastStep.symbol] # NoPos
  /\ ~HasPosition(lastStep.symbol)
  /\ todayTrades = 0

\* (exitPrice - entryPrice) * quantity * sign(side)
\*   - (entryPrice + exitPrice) * quantity * 0.0002, in 1/(PriceDen*QtyDen*FeeDen) USD.
NetPnlUsd(trade) ==
  (IF trade.side = "LONG" THEN 1 ELSE 0 - 1)
      * (trade.exitPrice - trade.entryPrice) * trade.quantity * FeeDen
    - (trade.entryPrice + trade.exitPrice) * trade.quantity

\* C7: the net P&L in USD of every recorded trade, whether closePosition or
\* handlePositionClosed recorded it, is the price move times the quantity,
\* signed by the side, less the fee rate on the entry value and on the exit
\* value; the leverage does not enter.
C7_NetPnlUsdFormula ==
  \A i \in DOMAIN trades : trades[i].pnlUsd = NetPnlUsd(trades[i])

\* C7 witness: a leveraged Position was closed at a profit by closePosition
\* and then recorded again, at a loss, by handlePositionClosed.
C7_Witness ==
  /\ lastStep.op = "handlePositionClosed"
  /\ lastStep.outcome = "recorded"
  /\ Len(trades) = 2
  /\ trades[2].exitReason \in {"sl", "tp"}
  /\ trades[2].leverage > 1
  /\ trades[2].pnlUsd > 0
  /\ trades[1].pnlUsd < 0

\* C8: the quantity closePosition submits is never larger than the quantity
\* of the Position, which is the quantity submitted when it was opened.
C8_CloseQuantityWithinOpen ==
  \A t \in Suspended :
    (t.kind = "close" /\ t.pc # "getSymbolInfo") => t.quantity <= t.position.quantity

\* C9: a symbol is in the opening set exactly while an invocation of
\* openPosition for it is suspended, and in the closing set exactly while an
\* invocation of closePosition for it is suspended: every exit removes the
\* marker, and no marker is left when nothing is in progress.
C9_MarkersFollowOperations ==
  /\ openingPositions = {s \in AllSymbols : OpenInFlight(s) # {}}
  /\ closingPositions = {s \in AllSymbols : CloseInFlight(s) # {}}

\* C9 witness: an open that was holding the marker has just left through a
\* thrown gateway error after a close of another Position ran to its end.
C9_Witness ==
  /\ lastStep.op = "openPosition"
  /\ lastStep.outcome = "gateway_error"
  /\ trades # <<>>
  /\ openingPositions = {}
  /\ closingPositions = {}

\* C10: no symbol is in the opening set and in the closing set at once.
C10_MarkersDisjoint == openingPositions \cap closingPositions = {}

\* C11: a call of openPosition for a symbol that has a Position in the
\* ledger when the call begins is a no-op: it starts no invocation that could
\* submit an order, and the ledger and the exchange stay as they were.
C11_OpenRejectedWhenPositionExists ==
  [][\A s \in AllSymbols :
       (/\ HasPosition(s)
        /\ lastStep'.op = "openPosition"
        /\ lastStep'.symbol = s
        /\ lastStep'.outcome \in OpenCallOutcomes)
       => /\ tasks' \sqsubseteq tasks
          /\ UNCHANGED <<positions, exchange>>]_vars

\* C12: an exit evaluation of a Position whose stopLoss and takeProfit are
\* both 0 never starts a close with reason sl or tp, whatever the tick price.
C12_UnsetSlTpNeverFires ==
  [][\A t \in Suspended' \ Suspended :
       (/\ t.kind = "close"
        /\ lastStep'.op = "closePosition"
        /\ HasPosition(t.symbol)
        /\ positions[t.symbol].stopLoss = 0
        /\ positions[t.symbol].takeProfit = 0)
       => t.reason \notin {"sl", "tp"}]_vars

\* The trades recorded for `symbol`.
TradesOf(symbol) == {i \in DOMAIN trades : trades[i].symbol = symbol}

\* The sum of pnlUsd over the recorded trades whose Position has left the
\* ledger.
RECURSIVE SettledPnlUsd(_)
SettledPnlUsd(list) ==
  IF list = <<>> THEN 0
  ELSE (IF HasPosition(Head(list).symbol) THEN 0 ELSE Head(list).pnlUsd)
       + SettledPnlUsd(Tail(list))

\* C13: under any interleaving of tick-driven exit checks and manualClose
\* calls, at most one trade is recorded per Position and its pnlUsd enters
\* today's P&L at most once, when the Position leaves the ledger; a recorded
\* trade is never changed or dropped afterwards (the list only grows at its
\* head).
C13_OneTradePerPosition ==
  /\ [](/\ \A s \in AllSymbols : Cardinality(TradesOf(s)) <= 1
        /\ todayPnl = SettledPnlUsd(trades))
  /\ [][/\ Len(trades') >= Len(trades)
        /\ SubSeq(trades', Len(trades') - Len(trades) + 1, Len(trades')) = trades
        /\ todayPnl' # todayPnl =>
             /\ lastStep'.op = "closePosition"
             /\ positions[lastStep'.symbol] # NoPos
             /\ positions'[lastStep'.symbol] = NoPos]_vars

\* C13 witness: a manualClose that read the Position before a tick-driven
\* close recorded and removed it has gone on to closePosition afterwards,
\* and its closing order has been refused: one trade stands for the Position
\* and today's P&L holds its pnlUsd once.
C13_Witness ==
  /\ lastStep.op = "closePosition"
  /\ lastStep.outcome = "order_failed"
  /\ ~HasPosition(lastStep.symbol)
  /\ TradesOf(lastStep.symbol) # {}
  /\ \A i \in TradesOf(lastStep.symbol) : trades[i].exitReason \in {"sl", "tp"}
  /\ todayPnl = SettledPnlUsd(trades)
  /\ todayPnl # 0

\* The Position has both levels set and has not been held beyond the limit.
SlTpSetWithinHold(position) ==
  /\ position.stopLoss # 0
  /\ position.takeProfit # 0
  /\ now - position.entryTime <= MAX_HOLD_TIME_HOURS

\* The stop-loss and the take-profit condition at price p.
StopLossCrossed(position, p) ==
  \/ position.side = "LONG" /\ p <= position.stopLoss
  \/ position.side = "SHORT" /\ p >= position.stopLoss

TakeProfitCrossed(position, p) ==
  \/ position.side = "LONG" /\ p >= position.takeProfit
  \/ position.side = "SHORT" /\ p <= position.takeProfit

\* C14: for a Position with stopLoss and takeProfit set and a hold time
\* within the limit, the exit evaluation at price p finds reason sl exactly
\* when the stop loss is crossed, otherwise tp exactly when the take profit
\* is crossed, and otherwise nothing; a tick that starts a close hands it
\* the reason so found for the tick's price, and a tick that starts none saw
\* a price at which neither level is crossed.
C14_SlTpRules ==
  /\ [](\A s \in AllSymbols :
          (HasPosition(s) /\ SlTpSetWithinHold(positions[s])) =>
            \A p \in MarketPrices :
              /\ ExitReason(positions[s], p) = "sl"
                   <=> StopLossCrossed(positions[s], p)
              /\ ExitReason(positions[s], p) = "tp"
                   <=> (~StopLossCrossed(positions[s], p)
                        /\ TakeProfitCrossed(positions[s], p))
              /\ ExitReason(positions[s], p) = "none"
                   <=> (~StopLossCrossed(positions[s], p)
                        /\ ~TakeProfitCrossed(positions[s], p)))
  /\ [][\A s \in AllSymbols :
          (/\ HasPosition(s)
           /\ SlTpSetWithinHold(positions[s])
           /\ lastStep'.symbol = s) =>
            /\ (lastStep'.op = "closePosition" /\ lastStep'.outcome = "started") =>
                 \A t \in Suspended' \ Suspended :
                   /\ t.reason = "sl" <=> StopLossCrossed(positions[s], t.exitPrice)
                   /\ t.reason = "tp" <=>
                        (~StopLossCrossed(positions[s], t.exitPrice)
                         /\ TakeProfitCrossed(positions[s], t.exitPrice))
                   /\ t.reason \in {"sl", "tp"}
            /\ (lastStep'.op = "checkPositionExit"
                /\ lastStep'.outcome \in {"held", "trailed"}) =>
                 /\ Suspended' = Suspended
                 /\ \E p \in MarketPrices :
                      /\ ~StopLossCrossed(positions[s], p)
                      /\ ~TakeProfitCrossed(positions[s], p)]_vars

\* C14 witness: a tick whose price equals the stop loss of a SHORT with both
\* levels set has started a close with reason sl.
C14_Witness ==
  /\ lastStep.op = "closePosition"
  /\ lastStep.outcome = "started"
  /\ \E t \in Suspended :
       /\ t.kind = "close"
       /\ t.pc = "getSymbolInfo"
       /\ t.reason = "sl"
       /\ HasPosition(t.symbol)
       /\ positions[t.symbol].side = "SHORT"
       /\ positions[t.symbol].takeProfit # 0
       /\ positions[t.symbol].stopLoss = t.exitPrice

\* now - entryTime is beyond the hold limit.
HeldTooLong(position) == now - position.entryTime > MAX_HOLD_TIME_HOURS

C16_PollEvaluatesExitRules ==
  \A s \in AllSymbols :
    (isRunning /\ HasPosition(s) /\ HeldTooLong(positions[s]))
      ~> (~HasPosition(s) \/ s \in closingPositions)

\* C17: an exit evaluation changes nothing of a Position but its stopLoss,
\* and that only through the trailing rule: the stop moves only at a price
\* where the leveraged P&L is above 1%, to 0.5% behind that price, never
\* down for a LONG and never up for a SHORT, and the evaluation that moves
\* it calls no closePosition (no invocation starts, no marker is set).
C17_TrailingOnlyTightens ==
  [][\A s \in AllSymbols :
       (/\ HasPosition(s)
        /\ lastStep'.symbol = s
        /\ lastStep'.op \in {"checkPositionExit", "closePosition"}
        /\ lastStep'.outcome \in {"held", "trailed", "started", "duplicate"}) =>
         /\ positions'[s] = [positions[s] EXCEPT !.stopLoss = positions'[s].stopLoss]
         /\ positions[s].side = "LONG" => positions'[s].stopLoss >= positions[s].stopLoss
         /\ positions[s].side = "SHORT" => positions'[s].stopLoss <= positions[s].stopLoss
         /\ lastStep'.outcome = "trailed" <=> positions'[s].stopLoss # positions[s].stopLoss
         /\ lastStep'.outcome = "trailed" =>
              /\ tasks' = tasks
              /\ closingPositions' = closingPositions
              /\ \E p \in MarketPrices :
                   /\ CalculatePnl(positions[s], p) > positions[s].entryPrice
                   /\ ExitReason(positions[s], p) = "none"
                   /\ positions'[s].stopLoss = TrailingStop(positions[s], p)]_vars

\* C17 witness: the stop of a SHORT has been pulled down behind the price by
\* the tick just handled.
C17_Witness ==
  /\ lastStep.op = "checkPositionExit"
  /\ lastStep.outcome = "trailed"
  /\ HasPosition(lastStep.symbol)
  /\ positions[lastStep.symbol].side = "SHORT"
  /\ positions[lastStep.symbol].stopLoss < positions[lastStep.symbol].entryPrice
  /\ closingPositions = {}

\* The stop of the Position is one the trailing rule has set: 0.5% behind a
\* market price. No level a decision carries is such a value.
Trailed(position) ==
  position.stopLoss \in {TrailingStop([position EXCEPT !.stopLoss =
                                         IF position.side = "LONG" THEN 0
                                         ELSE 1000000], p) : p \in MarketPrices}

\* C18: once the trailing rule has set the stop of a Position, neither a
\* further tick nor the SL/TP update of a decision cycle moves it back: the
\* stop of a LONG never decreases and the stop of a SHORT never increases.
C18_TrailedStopNeverLoosens ==
  [][\A s \in AllSymbols :
       (/\ HasPosition(s)
        /\ Trailed(positions[s])
        /\ positions'[s] # NoPos
        /\ lastStep'.op \in {"checkPositionExit", "closePosition", "analyzeAndDecide"}) =>
         /\ positions[s].side = "LONG" =>
              positions'[s].stopLoss >= positions[s].stopLoss
         /\ positions[s].side = "SHORT" =>
              positions'[s].stopLoss <= positions[s].stopLoss]_vars

\* C19: the trade handlePositionClosed records for a Position that was
\* closed on the exchange carries exitReason external, and every recorded
\* trade has an exitReason among tp, sl, manual, timeout and external.
C19_ExternalCloseRecordedAsExternal ==
  /\ [](\A i \in DOMAIN trades :
          trades[i].exitReason \in {"tp", "sl", "manual", "timeout", "external"})
  /\ [][(lastStep'.op = "handlePositionClosed" /\ lastStep'.outcome = "recorded") =>
          /\ Len(trades') = Len(trades) + 1
          /\ trades'[1].symbol = lastStep'.symbol
          /\ trades'[1].exitPrice \in MarketPrices
          /\ trades'[1].exitReason = "external"]_vars

\* C20: when the closing order of closePosition is refused or times out,
\* the invocation ends with the closing marker released and with the ledger,
\* the trade list and today's P&L as they were; and whenever an exit
\* evaluation or a manual close calls closePosition for a symbol that has no
\* close in flight, a new close starts, so the close is attempted again.
C20_FailedCloseIsRetried ==
  [][\A s \in AllSymbols :
       (lastStep'.op = "closePosition" /\ lastStep'.symbol = s) =>
         /\ (/\ lastStep'.outcome = "order_failed"
             /\ \E t \in CloseInFlight(s) : t.pc = "createOrder") =>
              /\ s \notin closingPositions'
              /\ \A t \in Suspended' : ~(t.kind = "close" /\ t.symbol = s)
              /\ positions' = positions
              /\ HasPosition(s) => positions'[s] = positions[s]
              /\ trades' = trades
              /\ todayPnl' = todayPnl
         /\ (/\ lastStep'.outcome \in {"started", "duplicate"}
             /\ CloseInFlight(s) = {}) =>
              /\ lastStep'.outcome = "started"
              /\ s \in closingPositions'
              /\ \E t \in Suspended' \ Suspended :
                   t.kind = "close" /\ t.symbol = s /\ t.pc = "getSymbolInfo"]_vars

\* C20 witness: a closing order has just failed; the Position is still in
\* the ledger and on the exchange, nothing is recorded and the marker is
\* free for the next attempt.
C20_Witness ==
  /\ lastStep.op = "closePosition"
  /\ lastStep.outcome = "order_failed"
  /\ HasPosition(lastStep.symbol)
  /\ exchange[lastStep.symbol] # NoPos
  /\ lastStep.symbol \notin closingPositions
  /\ trades = <<>>
  /\ todayPnl = 0

\* C21: when the closing order is refused because the exchange holds no
\* position for the symbol, closePosition removes the Position from the
\* ledger.
C21_MissingPositionEvicts ==
  [][\A s \in AllSymbols :
       (/\ lastStep'.op = "closePosition"
        /\ lastStep'.symbol = s
        /\ lastStep'.outcome = "order_failed"
        /\ exchange[s] = NoPos
        /\ HasPosition(s))
       => positions'[s] = NoPos]_vars

\* C22: openPosition goes on to its order only with a recommendation whose
\* leverage is within [1, MAX_LEVERAGE], whose positionSizePercent is within
\* (0, MAX_POSITION_SIZE_PERCENT] and whose market price is a finite
\* positive number; any other recommendation is rejected at the head, with
\* no invocation left, the marker released and the ledger untouched.
C22_OutOfRangeRecommendationRejected ==
  [][(lastStep'.op = "openPosition" /\ lastStep'.outcome \in OpenCallOutcomes) =>
       /\ \A t \in Suspended' \ Suspended :
            t.kind = "open" =>
              /\ t.decision.leverage >= 1
              /\ t.decision.leverage <= MAX_LEVERAGE
              /\ t.decision.positionSizePercent > 0
              /\ t.decision.positionSizePercent <= MAX_POSITION_SIZE_PERCENT
              /\ IsValidNumber(t.price)
              /\ t.price > 0
       /\ lastStep'.outcome \notin {"started", "duplicate"} =>
            /\ lastStep'.symbol \notin openingPositions'
            /\ tasks' \sqsubseteq tasks
            /\ UNCHANGED <<positions, exchange>>]_vars

\* C23: the quantity openPosition submits is the computed quantity
\* capital * leverage / price rounded down to the symbol's step: it is a
\* multiple of the step, never larger than the computed quantity and less
\* than one step below it; and no open goes on to its order with a rounded
\* quantity of zero.
C23_QuantityRoundedDown ==
  [][(lastStep'.op = "openPosition" /\ lastStep'.outcome = "started") =>
       \A t \in Suspended' \ Suspended :
         t.kind = "open" =>
           LET num == QuantityNum(t.decision.positionSizePercent, t.decision.leverage)
           IN /\ t.quantity > 0
              /\ t.quantity % QuantityUnit(t.symbol) = 0
              /\ t.quantity * t.price <= num
              /\ (t.quantity + QuantityUnit(t.symbol)) * t.price > num]_vars

\* The fills of the response have a positive total quantity.
FillsUsable(order) ==
  /\ Len(order.fills) > 0
  /\ ~IsNaN(SumFillQty(order.fills))
  /\ SumFillQty(order.fills) > 0

\* C24: whatever response the order of an open receives, the entry price is
\* the quantity-weighted average of the fills when fills with a positive
\* total quantity are present, else the reported average price when that is
\* a positive number, else the pre-trade market price.
C24_EntryPriceFromFillsFirst ==
  \A t \in Suspended :
    (t.kind = "open" /\ t.pc = "createOrder") =>
      \A order \in OrderResponses :
        DeriveEntryPrice(order, t.price) =
          IF FillsUsable(order)
          THEN IF IsNaN(SumFillValue(order.fills)) THEN NaN
               ELSE SumFillValue(order.fills) \div SumFillQty(order.fills)
          ELSE IF ~IsNaN(order.avgPrice) /\ order.avgPrice > 0 THEN order.avgPrice
          ELSE t.price

\* C25: every Position openPosition stores has its stop loss and take profit
\* on the right sides of the realized entry price: stopLoss < entryPrice <
\* takeProfit for a LONG, takeProfit < entryPrice < stopLoss for a SHORT.
C25_StoredSlTpDirectionConsistent ==
  [][\A s \in AllSymbols :
       (/\ lastStep'.op = "openPosition"
        /\ lastStep'.outcome \in StoredOutcomes
        /\ lastStep'.symbol = s) =>
         LET position == positions'[s] IN
         /\ position # NoPos
         /\ position.side = "LONG" =>
              /\ position.stopLoss < position.entryPrice
              /\ position.entryPrice < position.takeProfit
         /\ position.side = "SHORT" =>
              /\ position.takeProfit < position.entryPrice
              /\ position.entryPrice < position.stopLoss]_vars

\* stopLoss and takeProfit lie on the sides of entryPrice the side requires.
OnCorrectSides(position) ==
  IF position.side = "LONG"
  THEN position.stopLoss < position.entryPrice /\ position.entryPrice < position.takeProfit
  ELSE position.takeProfit < position.entryPrice /\ position.entryPrice < position.stopLoss

\* C26: a decision cycle that updates the SL/TP of an open Position leaves
\* the pair on the correct sides of entryPrice and changes no other field
\* and no other Position; a decision cycle that ends in any other way
\* leaves the ledger, stopLoss and takeProfit included, as it was.
C26_SlTpUpdateValidated ==
  [][lastStep'.op = "analyzeAndDecide" =>
       IF lastStep'.outcome = "sl_tp_updated"
       THEN LET s == lastStep'.symbol IN
            /\ HasPosition(s)
            /\ positions'[s] # NoPos
            /\ OnCorrectSides(positions'[s])
            /\ positions' = [positions EXCEPT
                               ![s].stopLoss = positions'[s].stopLoss,
                               ![s].takeProfit = positions'[s].takeProfit]
       ELSE positions' = positions]_vars

\* C26 witness: the last decision cycle the bound allows has just replaced
\* the levels of a SHORT by a pair on the correct sides.
C26_Witness ==
  /\ lastStep.op = "analyzeAndDecide"
  /\ lastStep.outcome = "sl_tp_updated"
  /\ HasPosition(lastStep.symbol)
  /\ positions[lastStep.symbol].side = "SHORT"
  /\ OnCorrectSides(positions[lastStep.symbol])
  /\ cycles = MaxCycles

\* The sum over the ledger of quantity * entryPrice / leverage, in
\* 1/ExposureDen USD.
RECURSIVE LedgerMargin(_)
LedgerMargin(S) ==
  IF S = {} THEN 0
  ELSE LET s == CHOOSE x \in S : TRUE
       IN (positions[s].quantity * positions[s].entryPrice * MAX_LEVERAGE)
            \div positions[s].leverage
          + LedgerMargin(S \ {s})

\* (currentExposure + requiredMargin) / balance * 100 is above the cap, or
\* balance <= 0; requiredMargin is capitalNum / 100 USD.
AdmissionDenied(capitalNum) ==
  \/ balance <= 0
  \/ (LedgerMargin({s \in AllSymbols : HasPosition(s)})
        + capitalNum * (ExposureDen \div 100)) * 100
       > MAX_TOTAL_EXPOSURE_PERCENT * balance * ExposureDen

\* C27: the admission check denies a required margin exactly when the
\* ledger's margin plus the required margin is more than
\* MAX_TOTAL_EXPOSURE_PERCENT of the balance, or the balance is not
\* positive; an open stopped by the check had a margin the rule denies, and
\* an open that passed it has a margin the rule admits.
C27_AdmissionRule ==
  /\ [](\A d \in Decisions :
          CanOpenNewPosition(CapitalNum(d.positionSizePercent))
            <=> ~AdmissionDenied(CapitalNum(d.positionSizePercent)))
  /\ [][lastStep'.op = "openPosition" =>
          /\ lastStep'.outcome = "exposure" =>
               \E d \in Decisions :
                 /\ d.positionSizePercent > 0
                 /\ AdmissionDenied(CapitalNum(d.positionSizePercent))
          /\ lastStep'.outcome = "started" =>
               \A t \in Suspended' \ Suspended :
                 t.kind = "open" => ~AdmissionDenied(t.capital)]_vars

\* C27 witness: with a positive balance and Positions in the ledger, an open
\* has just been stopped by the admission check.
C27_Witness ==
  /\ lastStep.op = "openPosition"
  /\ lastStep.outcome = "exposure"
  /\ balance > 0
  /\ \E s \in AllSymbols : HasPosition(s)
  /\ AdmissionDenied(CapitalNum(MAX_POSITION_SIZE_PERCENT))
  /\ ~AdmissionDenied(0)

\* The sum of pnlUsd over a list of trades.
RECURSIVE SumPnlUsd(_)
SumPnlUsd(list) ==
  IF list = <<>> THEN 0 ELSE Head(list).pnlUsd + SumPnlUsd(Tail(list))

\* C28: the step of closePosition that removes the Position adds that
\* trade's net P&L to today's P&L; whenever no close is in progress today's
\* P&L equals the sum of the net P&L of the recorded trades; and today's
\* trade count grows by one exactly in the steps of openPosition that store
\* a Position.
C28_DailyTotalsMatchTrades ==
  /\ []((\A t \in Suspended : t.kind \notin {"close", "external"}) =>
          todayPnl = SumPnlUsd(trades))
  /\ [][/\ (lastStep'.op = "closePosition" /\ lastStep'.outcome = "removed") =>
             /\ positions'[lastStep'.symbol] = NoPos
             /\ \E t \in CloseInFlight(lastStep'.symbol) :
                  todayPnl' = todayPnl + t.pnlUsd
        /\ todayTrades' =
             IF lastStep'.op = "openPosition" /\ lastStep'.outcome \in StoredOutcomes
             THEN todayTrades + 1 ELSE todayTrades]_vars

\* C29: a start of the engine on the day its daily figures belong to
\* (in particular a stop followed by a start on the same day) leaves
\* todayPnl and todayTrades as they were, and start and the daily-reset
\* timer reset both to zero and set lastResetDate to the current day
\* exactly when lastResetDate differs from the current day.
C29_RestartKeepsDailyFigures ==
  [][lastStep'.op \in {"start", "checkAndResetDaily"} =>
       IF lastResetDate # Today
       THEN todayPnl' = 0 /\ todayTrades' = 0 /\ lastResetDate' = Today
       ELSE /\ todayPnl' = todayPnl
            /\ todayTrades' = todayTrades
            /\ lastResetDate' = lastResetDate]_vars

\* C30: a failure while one symbol is analysed or traded is caught by the
\* task that raised it: no analysis ends in a rejection that nothing
\* handles, and the process, with its analysis, reconciliation and balance
\* timers, is never ended by one.
C30_FailuresAreContained ==
  /\ lastStep.outcome # "unhandled_rejection"
  /\ ~exited

\* The order requests let through in the 10 seconds that end now.
OrdersInWindow ==
  Cardinality({i \in DOMAIN orderTimestamps : clock - orderTimestamps[i] < OrderWindow})

\* C31: the number of order requests that waitForSlot(true) has let proceed
\* within any 10-second window never exceeds the threshold of 90% of
\* MAX_ORDERS_PER_10S, also when several callers wait at the same time.
C31_OrdersWithinThreshold == OrdersInWindow <= OrderThreshold

\* The decision of the provider that an adjusted decision was made from.
Recommended(decision) ==
  CHOOSE d \in Decisions : [d EXCEPT !.positionSizePercent = 0] =
                           [decision EXCEPT !.positionSizePercent = 0]

\* C32: with 3 or 4 losing trades in a row the size a new open is made with
\* is never larger than the size the decision recommended, and with 5 or
\* more losing trades in a row no open is begun and no order is submitted.
C32_LossStreakProtection ==
  [][\A t \in Suspended' \ Suspended :
       t.kind = "open" /\ t.pc = "setLeverage" =>
         /\ GetConsecutiveLosses(trades) < 5
         /\ GetConsecutiveLosses(trades) >= 3 =>
              /\ t.decision.positionSizePercent <=
                   Recommended(t.decision).positionSizePercent
              /\ t.size <= Recommended(t.decision).positionSizePercent]_vars

\* C33: a failed fetch of the exchange positions makes reconciliation
\* neither record a ClosedTrade for a Position nor evict it: whatever
\* handlePositionClosed does, it does for a symbol the exchange no longer
\* holds.
C33_FailedFetchEvictsNothing ==
  [][lastStep'.op = "handlePositionClosed" =>
       exchange[lastStep'.symbol] = NoPos]_vars

\* An open that has had its market order accepted with a valid entry price
\* (it is past the validation of the entry price).
OrderAccepted(t) == t.kind = "open" /\ t.pc \in {"entryConditions", "persist"}

\* C34: when an openPosition whose market order the gateway accepted, with a
\* valid positive entry price, releases the opening marker, the ledger holds
\* a Position for the symbol; the failure of the fear-greed or of the news
\* lookup does not prevent it (the Position is stored with neutral values).
C34_AcceptedOrderIsTracked ==
  [][/\ \A t \in Suspended :
          (OrderAccepted(t) /\ t \notin Suspended') =>
            positions'[t.symbol] # NoPos
     /\ \A t \in Suspended :
          (t.kind = "open" /\ t.pc = "entryConditions") =>
            t.symbol \in openingPositions'
     /\ lastStep'.outcome = "stored_neutral" =>
          positions'[lastStep'.symbol] # NoPos]_vars

\* An open whose lookups failed has stored its Position, still holding the
\* opening marker.
C34_Witness ==
  /\ lastStep.op = "openPosition" /\ lastStep.outcome = "stored_neutral"
  /\ positions[lastStep.symbol] # NoPos
  /\ exchange[lastStep.symbol] # NoPos
  /\ lastStep.symbol \in openingPositions

\* handlePositionClosed for `symbol` has added the P&L and awaits the save.
ExternalAccounted(symbol) ==
  \E u \in Suspended : u.kind = "external" /\ u.symbol = symbol /\ u.pc = "saveState"

\* C35: for a Position that is absent from the exchange, reconciliation
\* records at most one trade and adds its P&L to today's P&L at most once,
\* also when a pass fires while the accounting of an earlier pass is still
\* in progress.
C35_OneExternalAccounting ==
  [][\A s \in AllSymbols :
       (/\ lastStep'.op = "handlePositionClosed"
        /\ lastStep'.symbol = s
        /\ exchange[s] = NoPos) =>
         /\ lastStep'.outcome = "recorded" => TradesOf(s) = {}
         /\ lastStep'.outcome = "accounted" =>
              HasPosition(s) /\ ~ExternalAccounted(s)]_vars

\* C36: a Position that handlePositionClosed removes from the ledger has a
\* trade recorded and its net P&L added to today's P&L before the removal,
\* also when the price lookup for the estimated exit fails.
C36_EvictedOnlyAfterAccounting ==
  [][\A s \in AllSymbols :
       (/\ lastStep'.op = "handlePositionClosed"
        /\ lastStep'.symbol = s
        /\ HasPosition(s)
        /\ positions'[s] = NoPos) =>
         /\ \E i \in DOMAIN trades' : trades'[i].symbol = s
         /\ ExternalAccounted(s)]_vars

\* C37: while isRunning is false (after stop() has returned) no opening
\* order is submitted, neither by a decision cycle that was in flight when
\* stop() ran nor by the initial analysis that start() had scheduled.
C37_NoOpenAfterStop ==
  [][\A t \in Suspended :
       (/\ t.kind = "open" /\ t.pc = "createOrder"
        /\ lastStep'.op = "openPosition"
        /\ lastStep'.symbol = t.symbol
        /\ t \notin Suspended') => isRunning]_vars

\* C38: whatever start() and stop() calls are made (a second start() while
\* the first awaits initialize(), stop/start cycles), at most one set of the
\* analysis, reconciliation, balance and daily-reset timers and at most one
\* handler for the trade stream are active, exactly one of each while the
\* engine runs: a trade tick causes one exit evaluation.
C38_StartIsIdempotent ==
  /\ timers <= 1
  /\ listeners <= 1
  /\ isRunning => (timers = 1 /\ listeners = 1)

\* C39: the close event of a socket that disconnect() closed schedules no
\* reconnection, and once disconnect() has cleared ws no socket is created
\* until start() calls connect() again.
C39_NoReconnectAfterDisconnect ==
  [][/\ (lastStep'.op = "ws" /\ lastStep'.outcome = "closed") =>
          /\ reconnectTimers' = reconnectTimers
          /\ reconnectAttempts' = reconnectAttempts
     /\ (ws = "null" /\ ws' # "null") => lastStep'.op = "start"]_vars

====
